---- MODULE Spec2Model ----
(***************************************************************************)
(* A model of bender-cpuinfo.py: the CPU range codec (cpu_sorted,          *)
(* convert_to_ranges), the CPU registry (the global list CPUS of CpuInfo   *)
(* objects), the extraction of role assignments from an instance's         *)
(* Runtime.xml (get_cpu_info_bender), and the isolation consistency check  *)
(* (check_isolation_parameters).                                           *)
(*                                                                         *)
(* Python values are modelled as follows.                                  *)
(*   - A str that the program splits or parses character by character is   *)
(*     a sequence of one-character strings (a Text).                       *)
(*   - A call that can raise returns a record with a field ok; ok = FALSE  *)
(*     is a raised exception, and the record then names its type.          *)
(*   - A value that is used several times is handed to an operator as a    *)
(*     parameter: where the source has  r = f(x); if r: g(r)  the model    *)
(*     has  f_then(f(x))  with  f_then(r) == IF r THEN g(r) ...            *)
(***************************************************************************)
EXTENDS Integers, Sequences, FiniteSets, TLC

VARIABLES
    codec,      \* the range codec under test: [pc, text, nums, decoded, encoded]
    pc,         \* position of the run of __main__: the call that is next
    mode,       \* args.output
    CPUS,       \* the global CPUS: a sequence of CpuInfo records
    last,       \* the last call of the run: its name, what it read, its result
    report,     \* what human_view computed for its overview
    verdict     \* what check_isolation_parameters returned

vars == <<codec, pc, mode, CPUS, last, report, verdict>>

\* Python's None.
None == [t |-> "None"]

-----------------------------------------------------------------------------
(* Bounds of the model.                                                    *)

\* Longest text enumerated over TextAlphabet as input of cpu_sorted.
MaxTextLen == 5
\* Largest CPU id in the enumerated sorted lists given to convert_to_ranges.
MaxCpuId == 10
\* Most elements in an enumerated Runtime.xml.
MaxElems == 2
\* Most instances find_binstances returns.
MaxInstances == 2
\* Most parameters in an enumerated boot parameter string.
MaxTokens == 3

-----------------------------------------------------------------------------
(* The range codec: bender-cpuinfo.py lines 159-194.                       *)

Digits == <<"0", "1", "2", "3", "4", "5", "6", "7", "8", "9">>

DigitChars == {Digits[i] : i \in 1..10}

DigitValue(c) == (CHOOSE i \in 1..10 : Digits[i] = c) - 1

\* The characters of the enumerated inputs.  Python's int() also accepts
\* surrounding whitespace, a sign and underscores; none of them is in this
\* alphabet, and "\n" is removed by cpu_sorted before any int() call.
TextAlphabet == {"0", "1", "2", ",", "-"}

RECURSIVE StrNat(_)
\* str(n) for n >= 0: the decimal digits, most significant first.
StrNat(n) ==
    IF n < 10 THEN <<Digits[n + 1]>>
    ELSE StrNat(n \div 10) \o <<Digits[(n % 10) + 1]>>

\* str(n) of a Python int.
PyStr(n) == IF n < 0 THEN <<"-">> \o StrNat(0 - n) ELSE StrNat(n)

RECURSIVE DigitsValue(_, _)
\* The value of a run of decimal digits, acc being the value read so far.
DigitsValue(s, acc) ==
    IF s = <<>> THEN acc
    ELSE DigitsValue(Tail(s), acc * 10 + DigitValue(Head(s)))

ValueError == [ok |-> FALSE, val |-> "ValueError"]

\* int(s) on a str of the model's characters: ValueError on the empty
\* string and on any character that is not a digit.
PyInt(s) ==
    IF s # <<>> /\ \A i \in 1..Len(s) : s[i] \in DigitChars
    THEN [ok |-> TRUE, val |-> DigitsValue(s, 0)]
    ELSE ValueError

RECURSIVE PyReplaceChar(_, _)
\* s.replace(c, ""): every occurrence of the character c removed.
PyReplaceChar(s, c) ==
    IF s = <<>> THEN <<>>
    ELSE IF Head(s) = c THEN PyReplaceChar(Tail(s), c)
    ELSE <<Head(s)>> \o PyReplaceChar(Tail(s), c)

RECURSIVE PySplitFrom(_, _, _)
\* s.split(sep) continued: cur is the piece being read.
PySplitFrom(s, sep, cur) ==
    IF s = <<>> THEN <<cur>>
    ELSE IF Head(s) = sep THEN <<cur>> \o PySplitFrom(Tail(s), sep, <<>>)
    ELSE PySplitFrom(Tail(s), sep, Append(cur, Head(s)))

\* s.split(sep) for a one-character separator: "" gives [""].
PySplit(s, sep) == PySplitFrom(s, sep, <<>>)

RECURSIVE PyJoin(_, _)
\* sep.join(parts)
PyJoin(parts, sep) ==
    IF parts = <<>> THEN <<>>
    ELSE IF Len(parts) = 1 THEN parts[1]
    ELSE parts[1] \o <<sep>> \o PyJoin(Tail(parts), sep)

\* list(range(a, b + 1)): empty when b < a.
PyRangeIncl(a, b) == IF b < a THEN <<>> ELSE [i \in 1..(b - a + 1) |-> a + i - 1]

HasChar(s, c) == \E i \in 1..Len(s) : s[i] = c

Range(f) == {f[x] : x \in DOMAIN f}

RECURSIVE SortedSeq(_)
\* sorted(S) of a finite set of integers.
SortedSeq(S) ==
    IF S = {} THEN <<>>
    ELSE LET m == CHOOSE x \in S : \A y \in S : x <= y
         IN  <<m>> \o SortedSeq(S \ {m})

\* Line 190 with range(start, end) in place of range(start, end + 1).
range_of_open(start, end) ==
    IF ~start.ok \/ ~end.ok THEN ValueError
    ELSE [ok |-> TRUE, val |-> PyRangeIncl(start.val, end.val - 1)]

\* Lines 189-191: start, end = map(int, ...) and the ids start..end.
range_of(start, end) ==
    IF ~start.ok \/ ~end.ok THEN ValueError
    ELSE [ok |-> TRUE, val |-> PyRangeIncl(start.val, end.val)]

\* Line 189: the unpacking of split_data.split("-") into start and end.
range_token(parts) ==
    IF Len(parts) # 2 THEN ValueError
    ELSE range_of(PyInt(parts[1]), PyInt(parts[2]))

\* Line 193: res.append(int(split_data)).
number_token(n) == IF n.ok THEN [ok |-> TRUE, val |-> <<n.val>>] ELSE ValueError

\* One token of cpu_sorted's loop, lines 187-193: the ids the token adds.
cpu_sorted_token(split_data) ==
    IF HasChar(split_data, "-") THEN range_token(PySplit(split_data, "-"))
    ELSE number_token(PyInt(split_data))

RECURSIVE cpu_sorted_loop(_, _)
RECURSIVE cpu_sorted_next(_, _, _)
\* The for loop of cpu_sorted over the tokens still to read.
cpu_sorted_loop(tokens, res) ==
    IF tokens = <<>> THEN [ok |-> TRUE, val |-> res]
    ELSE cpu_sorted_next(Tail(tokens), res, cpu_sorted_token(Head(tokens)))

\* Line 191 / 193: the token's ids r join res, or its exception ends the loop.
cpu_sorted_next(tokens, res, r) ==
    IF r.ok THEN cpu_sorted_loop(tokens, res \o r.val) ELSE r

\* cpu_sorted(data_str), lines 180-194.
cpu_sorted(data_str) ==
    cpu_sorted_loop(PySplit(PyReplaceChar(data_str, "\n"), ","), <<>>)

\* The body of convert_to_ranges' for loop, lines 171-173, at index i (the
\* i-th element, counted from 1), on the loop's variables st = [start, ranges].
ranges_body(numbers, i, st) ==
    IF numbers[i] # numbers[i - 1] + 1
    THEN [start |-> numbers[i],
          ranges |-> Append(st.ranges, <<st.start, numbers[i - 1]>>)]
    ELSE st

RECURSIVE ranges_loop(_, _, _, _)
RECURSIVE ranges_second_half(_, _, _, _)
\* The for loop of convert_to_ranges run for the indices lo..hi in ascending
\* order.  The index range is halved, and the first half's result is looked
\* at before the second half starts, only to keep TLC's evaluation shallow on
\* lists of hundreds of ids: the body still runs once per index, in order.
ranges_loop(numbers, lo, hi, st) ==
    IF lo > hi THEN st
    ELSE IF lo = hi THEN ranges_body(numbers, lo, st)
    ELSE ranges_second_half(numbers, (lo + hi) \div 2, hi,
                            ranges_loop(numbers, lo, (lo + hi) \div 2, st))

ranges_second_half(numbers, mid, hi, first) ==
    IF Len(first.ranges) >= 0 THEN ranges_loop(numbers, mid + 1, hi, first)
    ELSE first

\* One (start, end) pair as line 177 formats it.
range_text(r) ==
    IF r[1] # r[2] THEN PyStr(r[1]) \o <<"-">> \o PyStr(r[2]) ELSE PyStr(r[1])

\* Line 177: ",".join(...) over the pairs.
join_ranges(ranges) == PyJoin([i \in 1..Len(ranges) |-> range_text(ranges[i])], ",")

\* Line 175: ranges.append((start, numbers[-1])).
last_range(numbers, st) == Append(st.ranges, <<st.start, numbers[Len(numbers)]>>)

\* convert_to_ranges(numbers), lines 159-177.
convert_to_ranges(numbers) ==
    IF Len(numbers) = 0 THEN <<>>
    ELSE join_ranges(last_range(numbers,
             ranges_loop(numbers, 2, Len(numbers),
                         [start |-> numbers[1], ranges |-> <<>>])))

-----------------------------------------------------------------------------
(* The CPU registry: class CpuInfo (lines 28-101) and the functions that   *)
(* search and update the global list CPUS (lines 308-316, 370-373).        *)

\* The list attributes CpuInfo.__init__ creates besides cpu_id and isolated.
RoleAttributes ==
    {"net_cpu", "TrashCPU", "AllRobotsThCPU", "RemoteFormulaCPU",
     "GatewaysDefault", "RobotsDefault", "RobotsDefault2", "Formula",
     "FormulaListDefault", "UdpSendCores", "UdpReceiveCores",
     "ClickHouseCores", "Kafka", "GlassNode", "DumperCPU", "Isolated",
     "ServicesCPU", "GatewaysOTC", "RobotsNode1", "RobotsNode2"}

\* The attribute names update_attribute refuses, lines 57 and 64.
ReservedAttributes == {"cpu_id", "isolated"}

\* A name that is absent (an XML attribute that is not set): Python's None
\* where a str is expected.
NoName == "<None>"

\* A text that is absent: Python's None where a str of characters is expected.
NoText == <<"<None>">>

\* CpuInfo(id_cpu), lines 29-53.
CpuInfo(id_cpu) ==
    [cpu_id |-> id_cpu, isolated |-> FALSE, attrs |-> [a \in RoleAttributes |-> <<>>]]

\* CpuInfo.update_attribute that leaves a list alone when it already holds
\* the value.
update_attribute_once(cpu, attr_name, attr_value) ==
    IF attr_name \notin ReservedAttributes
    THEN IF attr_name = NoName THEN [ok |-> FALSE, val |-> "TypeError"]
         ELSE IF attr_name \notin DOMAIN cpu.attrs
              THEN [ok |-> FALSE, val |-> "AttributeError"]
              ELSE [ok |-> TRUE,
                    val |-> IF attr_value \in Range(cpu.attrs[attr_name]) THEN cpu
                            ELSE [cpu EXCEPT !.attrs[attr_name] = Append(@, attr_value)]]
    ELSE [ok |-> FALSE, val |-> "Exception"]

\* CpuInfo.update_attribute without the test of line 64: a reserved name
\* is passed over in silence.
update_attribute_unguarded(cpu, attr_name, attr_value) ==
    IF attr_name \in ReservedAttributes THEN [ok |-> TRUE, val |-> cpu]
    ELSE IF attr_name = NoName THEN [ok |-> FALSE, val |-> "TypeError"]
    ELSE IF attr_name \notin DOMAIN cpu.attrs
         THEN [ok |-> FALSE, val |-> "AttributeError"]
         ELSE [ok |-> TRUE,
               val |-> [cpu EXCEPT !.attrs[attr_name] = Append(@, attr_value)]]

\* CpuInfo.update_attribute(attr_name, attr_value), lines 63-72: the object
\* after the call, or the exception.  getattr raises TypeError for a name
\* that is None and AttributeError for a name __init__ did not create.
update_attribute(cpu, attr_name, attr_value) ==
    IF attr_name \notin ReservedAttributes
    THEN IF attr_name = NoName THEN [ok |-> FALSE, val |-> "TypeError"]
         ELSE IF attr_name \notin DOMAIN cpu.attrs
              THEN [ok |-> FALSE, val |-> "AttributeError"]
              ELSE [ok |-> TRUE,
                    val |-> [cpu EXCEPT !.attrs[attr_name] = Append(@, attr_value)]]
    ELSE [ok |-> FALSE, val |-> "Exception"]

\* CpuInfo.check_free_bender_cpu that does not leave net_cpu out.
check_free_bender_cpu_counting_net(cpu) ==
    \A parameter \in DOMAIN cpu.attrs : cpu.attrs[parameter] = <<>>

\* CpuInfo.check_free_bender_cpu(), lines 97-101.  Of __dict__ the loop
\* skips isolated, cpu_id and net_cpu; the other entries are the role lists.
check_free_bender_cpu(cpu) ==
    \A parameter \in DOMAIN cpu.attrs :
        ~(cpu.attrs[parameter] # <<>> /\ parameter \notin {"net_cpu"})

\* get_cpu_by_id that falls back to the first CPU of the list.
get_cpu_by_id_or_first(cpus, cid) ==
    IF \E k \in 1..Len(cpus) : cpus[k].cpu_id = cid
    THEN CHOOSE k \in 1..Len(cpus) :
            /\ cpus[k].cpu_id = cid
            /\ \A j \in 1..(k - 1) : cpus[j].cpu_id # cid
    ELSE IF Len(cpus) > 0 THEN 1 ELSE 0

\* get_cpu_by_id(cid), lines 370-373: the index in CPUS of the first CpuInfo
\* with that id, 0 for None.
get_cpu_by_id(cpus, cid) ==
    IF \E k \in 1..Len(cpus) : cpus[k].cpu_id = cid
    THEN CHOOSE k \in 1..Len(cpus) :
            /\ cpus[k].cpu_id = cid
            /\ \A j \in 1..(k - 1) : cpus[j].cpu_id # cid
    ELSE 0

\* The string f'{upd_param} cpu {core} doesnt exist' of line 313, kept as
\* its two fields.
DoesntExist(upd_param, core) == [param |-> upd_param, core |-> core]

\* Line 315: cpu_for_update.update_attribute(...) returned r for CPUS[k].
update_cpus_updated(st, k, r) ==
    IF r.ok THEN [st EXCEPT !.cpus[k] = r.val]
    ELSE [st EXCEPT !.ok = FALSE, !.exc = r.val]

\* Lines 312-315: get_cpu_by_id returned CPUS[k], or None (k = 0).
update_cpus_found(st, core, k, upd_param, upd_instance) ==
    IF k = 0
    THEN [st EXCEPT !.errors = Append(@, DoesntExist(upd_param, core))]
    ELSE update_cpus_updated(st, k,
             update_attribute(st.cpus[k], upd_param, upd_instance))

\* Line 311: int(core) returned cid.
update_cpus_core(st, core, cid, upd_param, upd_instance) ==
    IF ~cid.ok THEN [st EXCEPT !.ok = FALSE, !.exc = cid.val]
    ELSE update_cpus_found(st, core, get_cpu_by_id(st.cpus, cid.val),
                           upd_param, upd_instance)

\* The body of update_cpus' loop, lines 311-315, for one core, on
\* st = [ok, exc, cpus, errors]: nothing more runs once an exception is raised.
update_cpus_body(st, core, upd_param, upd_instance) ==
    IF ~st.ok THEN st
    ELSE update_cpus_core(st, core, PyInt(core), upd_param, upd_instance)

RECURSIVE update_cpus_loop(_, _, _, _)
\* The for loop of update_cpus over the cores still to visit.
update_cpus_loop(st, cores, upd_param, upd_instance) ==
    IF cores = <<>> THEN st
    ELSE update_cpus_loop(
             update_cpus_body(st, Head(cores), upd_param, upd_instance),
             Tail(cores), upd_param, upd_instance)

\* update_cpus(cores_list, upd_param, upd_instance), lines 308-316, on the
\* registry cpus: [ok, exc, cpus, errors], errors being the list it returns
\* and cpus the registry it leaves.  A core is the text of its number.
update_cpus(cpus, cores_list, upd_param, upd_instance) ==
    update_cpus_loop([ok |-> TRUE, exc |-> "", cpus |-> cpus, errors |-> <<>>],
                     cores_list, upd_param, upd_instance)

\* What the model records of one update_cpus call: its arguments, the
\* registry before and after it, and what it returned.
UpdateCall(cores_list, upd_param, upd_instance, before, r) ==
    [cores_list |-> cores_list, upd_param |-> upd_param,
     upd_instance |-> upd_instance, before |-> before, after |-> r.cpus,
     ok |-> r.ok, errors |-> r.errors]

-----------------------------------------------------------------------------
(* An instance's Runtime.xml and get_cpu_info_bender, lines 319-367.       *)
(*                                                                         *)
(* The parsed document is the sequence, in document order, of the elements *)
(* below its root that carry a Cores attribute or are looked up; an        *)
(* element is [path, Cores, Name], path being the tags from the root's     *)
(* child down to the element.  A document that ET.parse cannot read is     *)
(* Unreadable.                                                             *)

Elem(path, cores, name) == [path |-> path, Cores |-> cores, Name |-> name]

Unreadable == <<Elem(<<"<unreadable>">>, NoText, NoName)>>

\* root.findall(tag), line 342: every child of the root with that tag.
XmlFindAll(elems, tag) == SelectSeq(elems, LAMBDA e : e.path = <<tag>>)

\* The first element of a list, if any.
FirstOf(hits) == IF hits = <<>> THEN <<>> ELSE <<hits[1]>>

\* root.find(tag), line 336: the first child of the root with that tag, as
\* a sequence of at most one element.
XmlFind(elems, tag) == FirstOf(XmlFindAll(elems, tag))

\* root.xpath('.//a/b/c'), lines 348 and 362: every element below the root
\* whose path ends with the steps a, b, c.
XmlXPath(elems, steps) ==
    SelectSeq(elems, LAMBDA e :
        /\ Len(e.path) >= Len(steps)
        /\ SubSeq(e.path, Len(e.path) - Len(steps) + 1, Len(e.path)) = steps)

\* parameters_list, lines 329-334.
parameters_list == <<"AllRobotsThCPU", "TrashCPU", "RemoteFormulaCPU", "DumperCPU">>

\* The two lookups of lines 347-352: the path and f"Udp{udp_type}Cores".
udp_params ==
    << <<<<"Udp", "Send", "CPU">>, "UdpSendCores">>,
       <<<<"Udp", "Receive", "CPU">>, "UdpReceiveCores">> >>

\* special_params, lines 355-359.
special_params ==
    << <<<<"TSDatabases", "TSDB", "Threads">>, "ClickHouseCores">>,
       <<<<"DealsStream", "Cpu">>, "Kafka">>,
       <<<<"ServicesCPU">>, "ServicesCPU">> >>

Request(cores, param) == [cores |-> cores, param |-> param]

RECURSIVE Flatten(_)
Flatten(ss) == IF ss = <<>> THEN <<>> ELSE Head(ss) \o Flatten(Tail(ss))

\* Lines 337-339: the element root.find returned, if any, is used.
FoundFirst(hits, param) ==
    IF hits = <<>> THEN <<>> ELSE <<Request(hits[1].Cores, param)>>

\* Lines 349 and 363 with the test len(...) >= 1: the first of several
\* matches is used.
ExactlyOneFirstOfMany(hits, param) ==
    IF Len(hits) >= 1 THEN <<Request(hits[1].Cores, param)>> ELSE <<>>

\* Lines 349 and 363: a lookup by xpath is used only when it matches
\* exactly one element.
ExactlyOne(hits, param) ==
    IF Len(hits) = 1 THEN <<Request(hits[1].Cores, param)>> ELSE <<>>

\* Lines 343-344: one request per CPUAlias element, its Name being the role.
AliasRequests(cpu_aliases) ==
    [i \in 1..Len(cpu_aliases) |->
        Request(cpu_aliases[i].Cores, cpu_aliases[i].Name)]

\* The update_cpus calls get_cpu_info_bender makes for a document, in the
\* order of lines 335-364, each with the Cores attribute it reads and the
\* role it passes.  The lookups do not change the document, so they are
\* all made here, before the first call runs.
bender_requests(elems) ==
    Flatten([i \in 1..Len(parameters_list) |->
                FoundFirst(XmlFind(elems, parameters_list[i]), parameters_list[i])])
    \o AliasRequests(XmlFindAll(elems, "CPUAlias"))
    \o Flatten([i \in 1..Len(udp_params) |->
                   ExactlyOne(XmlXPath(elems, udp_params[i][1]), udp_params[i][2])])
    \o Flatten([i \in 1..Len(special_params) |->
                   ExactlyOne(XmlXPath(elems, special_params[i][1]),
                              special_params[i][2])])

\* Lines 339, 344, 352, 364 with err_cpu = update_cpus(...): the list of
\* the last call replaces what was collected.
bender_assign(st, call, r) ==
    [ok |-> r.ok, exc |-> r.exc, cpus |-> r.cpus,
     err_cpu |-> IF r.ok THEN r.errors ELSE st.err_cpu,
     calls |-> Append(st.calls, call)]

\* err_cpu.extend(update_cpus(...)), lines 339, 344, 352, 364: update_cpus
\* returned r.
bender_extend(st, call, r) ==
    [ok |-> r.ok, exc |-> r.exc, cpus |-> r.cpus,
     err_cpu |-> IF r.ok THEN st.err_cpu \o r.errors ELSE st.err_cpu,
     calls |-> Append(st.calls, call)]

\* The call update_cpus(cores_list, param, instance) of one request.
bender_update(st, cores_list, param, instance, r) ==
    bender_extend(st, UpdateCall(cores_list, param, instance, st.cpus, r), r)

\* x.get('Cores').split(',') of one request.
bender_split(st, cores_list, param, instance) ==
    bender_update(st, cores_list, param, instance,
                  update_cpus(st.cpus, cores_list, param, instance))

\* One request of get_cpu_info_bender: x.get('Cores').split(',') and the
\* call of update_cpus, on st = [ok, exc, cpus, err_cpu, calls].  calls
\* records every update_cpus call.  An element without the attribute Cores
\* gives None, and None has no split.
bender_request(st, req, instance) ==
    IF ~st.ok THEN st
    ELSE IF req.cores = NoText
         THEN [st EXCEPT !.ok = FALSE, !.exc = "AttributeError"]
         ELSE bender_split(st, PySplit(req.cores, ","), req.param, instance)

RECURSIVE bender_requests_loop(_, _, _)
bender_requests_loop(st, reqs, instance) ==
    IF reqs = <<>> THEN st
    ELSE bender_requests_loop(bender_request(st, Head(reqs), instance),
                              Tail(reqs), instance)

\* The string f'{instance}: {err_cpu}' of line 367, kept as its two fields.
InstanceErrors(instance, err_cpu) == [instance |-> instance, errors |-> err_cpu]

\* Lines 366-367: the return of get_cpu_info_bender after its lookups.
bender_return(instance, st) ==
    [ok |-> st.ok, exc |-> st.exc, cpus |-> st.cpus, calls |-> st.calls,
     ret |-> IF st.ok /\ st.err_cpu # <<>>
             THEN <<InstanceErrors(instance, st.err_cpu)>> ELSE <<>>]

\* get_cpu_info_bender(instance), lines 319-367, on the registry cpus and
\* the instance's document: [ok, exc, cpus, calls, ret], ret being what it
\* returns as a sequence of at most one string (empty for None).
get_cpu_info_bender(cpus, instance, elems) ==
    IF elems = Unreadable
    THEN [ok |-> FALSE, exc |-> "ParseError", cpus |-> cpus, calls |-> <<>>,
          ret |-> <<>>]
    ELSE bender_return(instance,
             bender_requests_loop(
                 [ok |-> TRUE, exc |-> "", cpus |-> cpus,
                  err_cpu |-> <<>>, calls |-> <<>>],
                 bender_requests(elems), instance))

\* CpuInfo.human_show(), lines 74-79, as far as get_instance_info reads it:
\* the list attributes that are not empty.
human_show_lists(cpu) == {a \in DOMAIN cpu.attrs : cpu.attrs[a] # <<>>}

\* The cpu_id of every CpuInfo of a list.
cpu_ids(sel) == [i \in 1..Len(sel) |-> sel[i].cpu_id]

\* A Python list where None is possible too.
PyList(l) == [t |-> "list", v |-> l]

\* Lines 379-381 without the test of line 381: the role is shown for the
\* CPU, whoever holds it.
holds_any_instance(cpu, role, bs) == role \in human_show_lists(cpu)

\* Lines 379-381: the role is shown for the CPU and its list holds bs.
holds_instance(cpu, role, bs) ==
    role \in human_show_lists(cpu) /\ bs \in Range(cpu.attrs[role])

\* get_instance_info(bs), lines 376-387: for every role, the Python list of
\* the ids of the CPUs (in the order of CPUS) whose list for the role holds
\* bs.  The order of the keys (sorted_dict_by_key) is not modelled.
get_instance_info(cpus, bs) ==
    [role \in {role \in UNION {DOMAIN cpus[k].attrs : k \in 1..Len(cpus)} :
                  \E k \in 1..Len(cpus) : holds_instance(cpus[k], role, bs)} |->
        PyList(cpu_ids(SelectSeq(cpus, LAMBDA c : holds_instance(c, role, bs))))]

\* Lines 535-537: get_cpu_info_bender returned r.
info_append(st, r) ==
    [ok |-> r.ok, exc |-> r.exc, cpus |-> r.cpus,
     cpus_err |-> IF r.ok THEN st.cpus_err \o r.ret ELSE st.cpus_err,
     calls |-> st.calls \o r.calls]

\* The first loop of get_info_about_cpus, lines 534-537, for one instance,
\* on st = [ok, exc, cpus, cpus_err, calls].
info_instance(st, instance, elems) ==
    IF ~st.ok THEN st
    ELSE info_append(st, get_cpu_info_bender(st.cpus, instance, elems))

RECURSIVE info_loop(_, _, _)
info_loop(st, instances, docs) ==
    IF instances = <<>> THEN st
    ELSE info_loop(info_instance(st, Head(instances), Head(docs)),
                   Tail(instances), Tail(docs))

\* Lines 538-541: the second loop and the returned dict.
info_return(instances, st) ==
    [ok |-> st.ok, exc |-> st.exc, cpus |-> st.cpus, calls |-> st.calls,
     ret |-> [instance_info |->
                  IF st.ok
                  THEN [i \in 1..Len(instances) |->
                           get_instance_info(st.cpus, instances[i])]
                  ELSE <<>>,
              cpu_error |-> st.cpus_err]]

\* get_info_about_cpus(search_all_bs), lines 530-541, given what
\* find_binstances returned and each instance's document (docs[i] is the
\* document of instances[i]): [ok, exc, cpus, calls, ret], ret holding
\* instance_info (the i-th entry is keyed by instances[i]) and cpu_error.
get_info_about_cpus(cpus, instances, docs) ==
    info_return(instances,
        info_loop([ok |-> TRUE, exc |-> "", cpus |-> cpus,
                   cpus_err |-> <<>>, calls |-> <<>>], instances, docs))

-----------------------------------------------------------------------------
(* The system facts and the functions that read them into the registry.    *)

\* bool(x) of a list or None.
Truthy(x) == x.t = "list" /\ x.v # <<>>

\* Lines 303-304: one CpuInfo per decoded id.
new_cpus(r) ==
    IF ~r.ok THEN [ok |-> FALSE, exc |-> r.val, cpus |-> <<>>, calls |-> <<>>,
                   ret |-> None]
    ELSE [ok |-> TRUE, exc |-> "", calls |-> <<>>, ret |-> None,
          cpus |-> [k \in 1..Len(r.val) |-> CpuInfo(r.val[k])]]

\* get_all_cpus(), lines 296-305, given the content of
\* /sys/devices/system/cpu/online (NoText: the file cannot be opened).
get_all_cpus(online) ==
    IF online = NoText
    THEN [ok |-> FALSE, exc |-> "OSError", cpus |-> <<>>, calls |-> <<>>,
          ret |-> None]
    ELSE new_cpus(cpu_sorted(online))

\* Lines 284-285: the decoded list is returned.
isolated_system_cpu(r) == IF r.ok THEN [ok |-> TRUE, val |-> PyList(r.val)] ELSE r

\* Lines 283-285 without the test of line 283: the content is decoded even
\* when it is empty.
isolated_data_decoded(data) == isolated_system_cpu(cpu_sorted(data))

\* Lines 283-285: data is the file's content without line feeds.
isolated_data(data) ==
    IF data # <<>> THEN isolated_system_cpu(cpu_sorted(data))
    ELSE [ok |-> TRUE, val |-> None]

\* get_system_isolated_cpus(), lines 274-285, given the content of
\* /sys/devices/system/cpu/isolated: the list, or None for an empty file.
get_system_isolated_cpus(isolated) ==
    IF isolated = NoText THEN [ok |-> FALSE, val |-> "OSError"]
    ELSE isolated_data(PyReplaceChar(isolated, "\n"))

\* Lines 290-293 that mark the CPU at the position the id names.
mark_isolated_by_position(cpus, sys_isol_cpus) ==
    IF ~sys_isol_cpus.ok
    THEN [ok |-> FALSE, exc |-> sys_isol_cpus.val, cpus |-> cpus,
          calls |-> <<>>, ret |-> None]
    ELSE [ok |-> TRUE, exc |-> "", calls |-> <<>>, ret |-> None,
          cpus |-> IF Truthy(sys_isol_cpus.val)
                   THEN [k \in 1..Len(cpus) |->
                           IF k - 1 \in Range(sys_isol_cpus.val.v)
                           THEN [cpus[k] EXCEPT !.isolated = TRUE]
                           ELSE cpus[k]]
                   ELSE cpus]

\* Lines 290-293: the loop over CPUS once the file is read.
mark_isolated(cpus, sys_isol_cpus) ==
    IF ~sys_isol_cpus.ok
    THEN [ok |-> FALSE, exc |-> sys_isol_cpus.val, cpus |-> cpus,
          calls |-> <<>>, ret |-> None]
    ELSE [ok |-> TRUE, exc |-> "", calls |-> <<>>, ret |-> None,
          cpus |-> IF Truthy(sys_isol_cpus.val)
                   THEN [k \in 1..Len(cpus) |->
                           IF cpus[k].cpu_id \in Range(sys_isol_cpus.val.v)
                           THEN [cpus[k] EXCEPT !.isolated = TRUE]
                           ELSE cpus[k]]
                   ELSE cpus]

\* get_isolated_cpu(), lines 288-293.  The file is read again for every
\* CPU; it does not change during the run, so every read returns the same.
get_isolated_cpu(cpus, isolated) ==
    mark_isolated(cpus, get_system_isolated_cpus(isolated))

\* An interface as get_network_cpu sees it: its name and, for every line
\* of /proc/interrupts that contains its search key (lines 468-473), the
\* content of that interrupt's smp_affinity_list.
Interface(name, affinity) == [name |-> name, affinity |-> affinity]

RECURSIVE net_cpus_of(_, _)
RECURSIVE net_cpus_extend(_, _, _)
\* Lines 472-476: the affinity lists of the matching interrupts, decoded
\* and concatenated.
net_cpus_of(affinity, net_cpus) ==
    IF affinity = <<>> THEN [ok |-> TRUE, val |-> net_cpus]
    ELSE IF Head(affinity) = NoText THEN [ok |-> FALSE, val |-> "OSError"]
    ELSE net_cpus_extend(Tail(affinity), net_cpus, cpu_sorted(Head(affinity)))

\* Line 476: net_cpus = net_cpus + cpu_sorted(data).
net_cpus_extend(affinity, net_cpus, r) ==
    IF r.ok THEN net_cpus_of(affinity, net_cpus \o r.val) ELSE r

\* Line 480: update_cpus returned r.
network_updated(st, call, r) ==
    [ok |-> r.ok, exc |-> r.exc, cpus |-> r.cpus, calls |-> Append(st.calls, call)]

\* Line 480: update_cpus(net_cpus_sorted, 'net_cpu', interface).
network_update(st, cores_list, name, r) ==
    network_updated(st, UpdateCall(cores_list, "net_cpu", name, st.cpus, r), r)

\* Lines 479-480.  net_cpus_sorted holds ints; update_cpus gets each as the
\* text of its number (int(core) and the f-string of update_cpus treat both
\* alike).
network_sorted(st, cores_list, name) ==
    network_update(st, cores_list, name,
                   update_cpus(st.cpus, cores_list, "net_cpu", name))

\* Lines 477-480 without sorted(set(...)) of line 478: the concatenated
\* lists are registered as they are.
network_cpus_with_repeats(st, net_cpus, name) ==
    IF ~net_cpus.ok THEN [st EXCEPT !.ok = FALSE, !.exc = net_cpus.val]
    ELSE IF net_cpus.val # <<>>
         THEN network_sorted(st, [i \in 1..Len(net_cpus.val) |-> PyStr(net_cpus.val[i])],
                             name)
         ELSE st

\* Lines 477-480: if net_cpus: sorted(set(net_cpus)).
network_cpus(st, net_cpus, name) ==
    IF ~net_cpus.ok THEN [st EXCEPT !.ok = FALSE, !.exc = net_cpus.val]
    ELSE IF net_cpus.val # <<>>
         THEN network_sorted(st, [i \in 1..Cardinality(Range(net_cpus.val)) |->
                                     PyStr(SortedSeq(Range(net_cpus.val))[i])],
                             name)
         ELSE st

\* The body of get_network_cpu's loop, lines 466-480, for one interface,
\* on st = [ok, exc, cpus, calls].
network_interface(st, interface) ==
    IF ~st.ok THEN st
    ELSE network_cpus(st, net_cpus_of(interface.affinity, <<>>), interface.name)

RECURSIVE network_loop(_, _)
network_loop(st, interfaces) ==
    IF interfaces = <<>> THEN st
    ELSE network_loop(network_interface(st, Head(interfaces)), Tail(interfaces))

\* The result of get_network_cpu, which returns None.
network_return(st) ==
    [ok |-> st.ok, exc |-> st.exc, cpus |-> st.cpus, calls |-> st.calls,
     ret |-> None]

\* get_network_cpu(interfaces), lines 455-480: [ok, exc, cpus, calls, ret].
get_network_cpu(cpus, interfaces) ==
    network_return(network_loop(
        [ok |-> TRUE, exc |-> "", cpus |-> cpus, calls |-> <<>>], interfaces))

-----------------------------------------------------------------------------
(* Boot parameters (lines 197-214, 245-271) and the isolation check        *)
(* (lines 483-527).                                                        *)
(*                                                                         *)
(* A boot parameter string is a sequence of pieces: the characters " ",    *)
(* "=", ",", "-" and the digits stand for themselves, and a word without   *)
(* any of them (isolcpus, intel_idle.max_cstate, poll) is one piece.  The  *)
(* piece "cgroup_disable_" is the prefix of the f-string of line 209, so   *)
(* the key cgroup_disable_cpu is the two pieces "cgroup_disable_", "cpu".  *)
(* A value of a parameter dict carries its Python type.                    *)

PyTrue == [t |-> "bool", v |-> TRUE]

PyStrVal(s) == [t |-> "str", v |-> s]

PyDict(d) == [t |-> "dict", d |-> d]

\* a == b for two values that carry their type.
PyEq(a, b) == a.t = b.t /\ (a.t = "None" \/ a.v = b.v)

\* {}
EmptyDict == [k \in {} |-> None]

\* d[key] = value
DictSet(d, key, value) ==
    [k \in DOMAIN d \cup {key} |-> IF k = key THEN value ELSE d[k]]

\* d.get(key)
DictGet(d, key) == IF key \in DOMAIN d THEN d[key] ELSE None

\* Line 205: res["isolcpus"] = cpu_sorted(p[1]), r being what cpu_sorted
\* returned.
refactor_isolcpus(res, r) ==
    IF r.ok THEN [res EXCEPT !.d = DictSet(@, <<"isolcpus">>, PyList(r.val))]
    ELSE [res EXCEPT !.ok = FALSE, !.exc = r.val]

\* Lines 202-212: p = parameter.split("=").
refactor_pair(res, p) ==
    IF p[1] = <<"isolcpus">>
    THEN IF p[2] # <<>> THEN refactor_isolcpus(res, cpu_sorted(p[2]))
         ELSE [res EXCEPT !.d = DictSet(@, <<"isolcpus">>, None)]
    ELSE IF p[1] = <<"cgroup_disable">>
         THEN [res EXCEPT !.d = DictSet(@, <<"cgroup_disable_">> \o p[2], PyTrue)]
         ELSE [res EXCEPT !.d = DictSet(@, p[1], PyStrVal(p[2]))]

\* The body of refactor_parameters' loop, lines 199-213, for one parameter,
\* on res = [ok, exc, d].
refactor_parameter(res, parameter) ==
    IF ~res.ok THEN res
    ELSE IF parameter = <<>> THEN res
    ELSE IF HasChar(parameter, "=") THEN refactor_pair(res, PySplit(parameter, "="))
    ELSE [res EXCEPT !.d = DictSet(@, parameter, PyTrue)]

RECURSIVE refactor_loop(_, _)
refactor_loop(res, parameters) ==
    IF parameters = <<>> THEN res
    ELSE refactor_loop(refactor_parameter(res, Head(parameters)), Tail(parameters))

\* The dict refactor_parameters returns, or its exception.
refactor_return(res) ==
    IF res.ok THEN [ok |-> TRUE, val |-> PyDict(res.d)]
    ELSE [ok |-> FALSE, val |-> res.exc]

\* refactor_parameters(data), lines 197-214.
refactor_parameters(data) ==
    refactor_return(refactor_loop([ok |-> TRUE, exc |-> "", d |-> EmptyDict],
                                  PySplit(data, " ")))

\* /etc/default/grub without a line GRUB_CMDLINE_LINUX="...".
NoGrubLine == <<"<no GRUB_CMDLINE_LINUX>">>

\* get_grub_parameters(), lines 245-250, given what the regular expression
\* captures in /etc/default/grub (NoText: the file cannot be opened).
get_grub_parameters(grub) ==
    IF grub = NoText THEN [ok |-> FALSE, val |-> "OSError"]
    ELSE IF grub = NoGrubLine THEN [ok |-> TRUE, val |-> None]
    ELSE refactor_parameters(grub)

\* Lines 256-257: cmdline_data is the file's content without line feeds.
cmdline_parameters(cmdline_data) ==
    IF cmdline_data # <<>> THEN refactor_parameters(cmdline_data)
    ELSE [ok |-> TRUE, val |-> None]

\* get_cmdline_parameters(), lines 253-257, given the content of
\* /proc/cmdline.
get_cmdline_parameters(cmdline) ==
    IF cmdline = NoText THEN [ok |-> FALSE, val |-> "OSError"]
    ELSE cmdline_parameters(PyReplaceChar(cmdline, "\n"))

\* REQ_PARAM_FOR_GR["default"], lines 789-797, in the order of its keys.
ReqParamDefault ==
    << <<<<"intel_idle.max_cstate">>, PyStrVal(<<"0">>)>>,
       <<<<"processor.max_cstate">>, PyStrVal(<<"0">>)>>,
       <<<<"idle">>, PyStrVal(<<"poll">>)>>,
       <<<<"mitigations">>, PyStrVal(<<"off">>)>>,
       <<<<"cgroup_disable_", "cpu">>, PyTrue>>,
       <<<<"cgroup_disable_", "memory">>, PyTrue>>,
       <<<<"nosmt">>, PyTrue>> >>

\* REQ_PARAM_FOR_GR["trade_roxana"], lines 798-804.
ReqParamTradeRoxana ==
    << <<<<"intel_idle.max_cstate">>, PyStrVal(<<"0">>)>>,
       <<<<"processor.max_cstate">>, PyStrVal(<<"0">>)>>,
       <<<<"idle">>, PyStrVal(<<"poll">>)>>,
       <<<<"mitigations">>, PyStrVal(<<"off">>)>>,
       <<<<"nosmt">>, PyTrue>> >>

\* REQ_PARAM_FOR_GR.get(name), lines 788-806: <<>> stands for None.
REQ_PARAM_FOR_GR(name) ==
    IF name = "default" THEN ReqParamDefault
    ELSE IF name = "trade_roxana" THEN ReqParamTradeRoxana
    ELSE <<>>

\* Line 268 without the fallback to the default policy.
req_parameters_no_default(req_param_dict) == req_param_dict

\* Line 268: req_param_dict or REQ_PARAM_FOR_GR.get("default", {}).
req_parameters(req_param_dict) ==
    IF req_param_dict # <<>> THEN req_param_dict ELSE REQ_PARAM_FOR_GR("default")

\* Line 269: the keys whose required value is not the actual one.
err_parameters(param_dict, req) ==
    Flatten([i \in 1..Len(req) |->
                IF ~PyEq(req[i][2], DictGet(param_dict, req[i][1]))
                THEN <<req[i][1]>> ELSE <<>>])

\* check_parameters(param_dict, req_param_dict), lines 260-271: the keys it
\* lists after "Invalid parameters: ", <<>> for None.
check_parameters(param_dict, req_param_dict) ==
    err_parameters(param_dict, req_parameters(req_param_dict))

\* str.lower() on the group names of the model.
PyLower(name) ==
    IF name = "Trade_QB_Test" THEN "trade_qb_test"
    ELSE IF name = "Workstation_Dev" THEN "workstation_dev"
    ELSE IF name = "TRADE_ROXANA" THEN "trade_roxana"
    ELSE name

\* get_cmdb_primery_gr that falls back to the group "default" when
\* /etc/cmdb/cmdb_info.json cannot be opened.
get_cmdb_primery_gr_or_default(primary_group) ==
    IF primary_group = NoName THEN [ok |-> TRUE, val |-> "default"]
    ELSE [ok |-> TRUE, val |-> PyLower(primary_group)]

\* get_cmdb_primery_gr(), lines 114-117, given primary_group of
\* /etc/cmdb/cmdb_info.json (NoName: the file cannot be opened).
get_cmdb_primery_gr(primary_group) ==
    IF primary_group = NoName THEN [ok |-> FALSE, val |-> "OSError"]
    ELSE [ok |-> TRUE, val |-> PyLower(primary_group)]

\* Lines 105-111: the group gr is looked for in groups, and any exception
\* counts as False.
group_in(gr, groups) == gr.ok /\ gr.val \in Range(groups)

\* check_group(groups), lines 104-111.
check_group(primary_group, groups) ==
    group_in(get_cmdb_primery_gr(primary_group), groups)

\* Lines 547-552: data is the file's content without line feeds.
hypertrading_data(data) ==
    IF data = <<"1">> THEN [ok |-> TRUE, val |-> TRUE]
    ELSE IF data = <<"0">> THEN [ok |-> TRUE, val |-> FALSE]
    ELSE [ok |-> FALSE, val |-> "Exception"]

\* check_hypertrading(), lines 544-552, given the content of
\* /sys/devices/system/cpu/smt/active.
check_hypertrading(smt_active) ==
    IF smt_active = NoText THEN [ok |-> FALSE, val |-> "OSError"]
    ELSE hypertrading_data(PyReplaceChar(smt_active, "\n"))

\* One sentence of err_check: what it is about, the file or source it names
\* and the items it lists.
Desc(kind, about, items) == [kind |-> kind, about |-> about, items |-> items]

\* Lines 496-499: "Invalid cpus: ..." when there are instances and errors.
invalid_cpus_desc(instances, cpu_error) ==
    IF Len(instances) > 0 /\ Len(cpu_error) > 0
    THEN <<Desc("Invalid cpus", "", cpu_error)>> ELSE <<>>

\* Lines 500-503 that compare the ids as sets.
isolated_not_eq_as_sets(system, isolcpus, file) ==
    IF system.t = "list" /\ isolcpus.t = "list" /\ Range(system.v) = Range(isolcpus.v)
    THEN <<>>
    ELSE IF ~PyEq(system, isolcpus) THEN <<Desc("Isolated cpu not eq", file, <<>>)>>
    ELSE <<>>

\* Lines 500-503: system != x.get('isolcpus') for the file x was read from.
isolated_not_eq(system, isolcpus, file) ==
    IF ~PyEq(system, isolcpus) THEN <<Desc("Isolated cpu not eq", file, <<>>)>>
    ELSE <<>>

\* Lines 504-505 without the test.
no_isolated_desc_never(system) == <<>>

\* Lines 504-505: if not system.
no_isolated_desc(system) ==
    IF ~Truthy(system)
    THEN <<Desc("The server does not have isolated cpus", "", <<>>)>> ELSE <<>>

\* Lines 507-508: psutil.cpu_count(logical=True) != cpu_count(logical=False).
cpu_count_desc(logical, physical) ==
    IF logical # physical THEN <<Desc("Hyperthreading enable", "cpu_count", <<>>)>>
    ELSE <<>>

\* Lines 509-510: if check_hypertrading().
smt_desc(active) ==
    IF active
    THEN <<Desc("Hyperthreading enable", "/sys/devices/system/cpu/smt/active", <<>>)>>
    ELSE <<>>

\* Lines 514-519: f'Cmdline {cmdline_check}; ' and f'Grub {grub_check}; '.
parameters_desc(source, keys) ==
    IF Len(keys) > 0 THEN <<Desc("Invalid parameters", source, keys)>> ELSE <<>>

\* What check_isolation_parameters returns: "OK", "Error: ..." with the
\* sentences joined by "; ", or the sentences on a line each.
Verdict(form, descs) == [form |-> form, descs |-> descs]

\* Lines 487 and 490: return "OK" before anything is read.
check_skipped(cpus) ==
    [ok |-> TRUE, exc |-> "", cpus |-> cpus, calls |-> <<>>,
     ret |-> Verdict("OK", <<>>)]

\* An exception leaves check_isolation_parameters.
check_raised(cpus, calls, exc) ==
    [ok |-> FALSE, exc |-> exc, cpus |-> cpus, calls |-> calls, ret |-> None]

\* Lines 520-527: the return of the sentences collected.
check_return(zabbix, info, descs) ==
    [ok |-> TRUE, exc |-> "", cpus |-> info.cpus, calls |-> info.calls,
     ret |-> IF Len(descs) > 0
             THEN Verdict(IF zabbix THEN "Error" ELSE "lines", descs)
             ELSE Verdict("OK", <<>>)]

\* Lines 512-519: gr is what get_cmdb_primery_gr returned.
check_policy(zabbix, grub, cmdline, info, descs, gr) ==
    IF ~gr.ok THEN check_raised(info.cpus, info.calls, gr.val)
    ELSE check_return(zabbix, info,
             descs
             \o parameters_desc("Cmdline",
                    check_parameters(cmdline.d, REQ_PARAM_FOR_GR(gr.val)))
             \o parameters_desc("Grub",
                    check_parameters(grub.d, REQ_PARAM_FOR_GR(gr.val))))

\* Lines 509-512: smt is what check_hypertrading returned.
check_smt(zabbix, facts, grub, cmdline, info, descs, smt) ==
    IF ~smt.ok THEN check_raised(info.cpus, info.calls, smt.val)
    ELSE check_policy(zabbix, grub, cmdline, info, descs \o smt_desc(smt.val),
                      get_cmdb_primery_gr(facts.primary_group))

\* Lines 495-510: info is what get_info_about_cpus returned.  grub.get and
\* cmdline.get raise AttributeError on None.
check_compare(zabbix, facts, grub, cmdline, system, info) ==
    IF ~info.ok THEN check_raised(info.cpus, info.calls, info.exc)
    ELSE IF grub.t = "None" \/ cmdline.t = "None"
         THEN check_raised(info.cpus, info.calls, "AttributeError")
         ELSE check_smt(zabbix, facts, grub, cmdline, info,
                  invalid_cpus_desc(facts.instances, info.ret.cpu_error)
                  \o isolated_not_eq(system, DictGet(grub.d, <<"isolcpus">>),
                                     "/etc/default/grub")
                  \o isolated_not_eq(system, DictGet(cmdline.d, <<"isolcpus">>),
                                     "/proc/cmdline")
                  \o no_isolated_desc(system)
                  \o cpu_count_desc(facts.logical, facts.physical),
                  check_hypertrading(facts.smt_active))

\* Lines 492-495: grub, cmdline and system are what the three readers
\* returned, read in this order.
check_sources(cpus, zabbix, facts, grub, cmdline, system) ==
    IF ~grub.ok THEN check_raised(cpus, <<>>, grub.val)
    ELSE IF ~cmdline.ok THEN check_raised(cpus, <<>>, cmdline.val)
    ELSE IF ~system.ok THEN check_raised(cpus, <<>>, system.val)
    ELSE check_compare(zabbix, facts, grub.val, cmdline.val, system.val,
                       get_info_about_cpus(cpus, facts.instances, facts.docs))

\* The group names of line 486.
TestGroups == <<"trade_qb_test", "workstation_dev">>

\* check_isolation_parameters whose lines 485-490 are not under the test of
\* line 484: the check is cut short in either mode.
check_isolation_parameters_gate_in_any_mode(cpus, zabbix, facts) ==
    IF check_group(facts.primary_group, TestGroups) THEN check_skipped(cpus)
    ELSE IF Len(facts.instances) = 0 THEN check_skipped(cpus)
    ELSE check_sources(cpus, zabbix, facts,
                       get_grub_parameters(facts.grub),
                       get_cmdline_parameters(facts.cmdline),
                       get_system_isolated_cpus(facts.isolated))

\* check_isolation_parameters(zabbix), lines 483-527, on the registry cpus
\* and the facts of the host: [ok, exc, cpus, calls, ret], ret being the
\* Verdict.  find_binstances() of line 489 and of get_info_about_cpus return
\* the same list (INCLUDE_DEAD_BS is False).
check_isolation_parameters(cpus, zabbix, facts) ==
    IF zabbix /\ check_group(facts.primary_group, TestGroups) THEN check_skipped(cpus)
    ELSE IF zabbix /\ Len(facts.instances) = 0 THEN check_skipped(cpus)
    ELSE check_sources(cpus, zabbix, facts,
                       get_grub_parameters(facts.grub),
                       get_cmdline_parameters(facts.cmdline),
                       get_system_isolated_cpus(facts.isolated))

-----------------------------------------------------------------------------
(* The codec on its own: every text up to MaxTextLen characters and every  *)
(* sorted duplicate-free list of ids up to MaxCpuId is decoded or encoded, *)
(* and the result is fed to the opposite operation.                        *)

\* The example of the two docstrings, lines 161-162 and 182-183.
DocText == <<"0", ",", "1", ",", "2", "-", "5", ",", "1", "1", "1">>

DocList == <<0, 1, 2, 3, 4, 5, 111>>

\* A fact file as the kernel writes it: the range and a line feed.
FileText == <<"0", "-", "3", "\n">>

AllTexts == UNION {[1..n -> TextAlphabet] : n \in 0..MaxTextLen}

\* What convert_to_ranges writes for DocList.
CollapsedText == <<"0", "-", "5", ",", "1", "1", "1">>

CodecTexts == AllTexts \cup {DocText, FileText, CollapsedText}

CodecLists == {SortedSeq(S) : S \in SUBSET (0..MaxCpuId)} \cup {DocList}

NoResult == [ok |-> FALSE, val |-> "not called"]

NoCall == [op |-> "none"]

\* The run of __main__ has not started: the codec is exercised alone.
RunIdle ==
    /\ pc = "idle"
    /\ mode = "none"
    /\ CPUS = <<>>
    /\ last = NoCall
    /\ report = None
    /\ verdict = None

CodecIdle == codec = [pc |-> "idle", text |-> <<>>, nums |-> <<>>,
                      decoded |-> NoResult, encoded |-> <<>>]

CodecInit ==
    /\ RunIdle
    /\ \/ \E t \in CodecTexts :
            codec = [pc |-> "text", text |-> t, nums |-> <<>>,
                     decoded |-> NoResult, encoded |-> <<>>]
       \/ \E x \in CodecLists :
            codec = [pc |-> "nums", text |-> <<>>, nums |-> x,
                     decoded |-> NoResult, encoded |-> <<>>]

RunUnchanged == UNCHANGED <<pc, mode, CPUS, last, report, verdict>>

\* decode(text)
Decode ==
    /\ codec.pc = "text"
    /\ codec' = [codec EXCEPT !.pc = "decoded", !.decoded = cpu_sorted(codec.text)]
    /\ RunUnchanged

\* encode(decode(text)), when decode returned
EncodeDecoded ==
    /\ codec.pc = "decoded"
    /\ codec.decoded.ok
    /\ codec' = [codec EXCEPT !.pc = "decoded_encoded",
                              !.encoded = convert_to_ranges(codec.decoded.val)]
    /\ RunUnchanged

\* encode(nums)
Encode ==
    /\ codec.pc = "nums"
    /\ codec' = [codec EXCEPT !.pc = "encoded", !.encoded = convert_to_ranges(codec.nums)]
    /\ RunUnchanged

\* decode(encode(nums))
DecodeEncoded ==
    /\ codec.pc = "encoded"
    /\ codec' = [codec EXCEPT !.pc = "encoded_decoded",
                              !.decoded = cpu_sorted(codec.encoded)]
    /\ RunUnchanged

CodecNext == Decode \/ EncodeDecoded \/ Encode \/ DecodeEncoded

SpecCodec == CodecInit /\ [][CodecNext]_vars

-----------------------------------------------------------------------------
(* The run of __main__, lines 808-825: get_all_cpus, then the calls of the *)
(* chosen output mode, one action per call.  A call that raises ends the   *)
(* run in the except clause of lines 826-832 (pc = "error").               *)

\* The calls each output mode makes, in order: line 809, then human_view
\* (lines 559-575), json_view (600-602), telegraf_metrics (620-622),
\* zabbix_discovery (609-610), net_info (652-654) and the two modes of
\* check_isolation_parameters (813, 815).
Steps(m) ==
    CASE m = "human" ->
            <<"get_all_cpus", "get_isolated_cpu", "get_network_cpu",
              "get_info_about_cpus", "overview">>
      [] m = "json" ->
            <<"get_all_cpus", "get_isolated_cpu", "get_info_about_cpus",
              "get_network_cpu">>
      [] m = "telegraf_metrics" ->
            <<"get_all_cpus", "get_isolated_cpu", "get_info_about_cpus",
              "get_network_cpu">>
      [] m = "zabbix_discovery" ->
            <<"get_all_cpus", "get_isolated_cpu", "get_info_about_cpus">>
      [] m = "net" -> <<"get_all_cpus", "get_isolated_cpu", "get_network_cpu">>
      [] m = "check" -> <<"get_all_cpus", "check_isolation_parameters">>
      [] m = "zabbix_check" -> <<"get_all_cpus", "check_isolation_parameters">>

\* The position in steps after the call step.
NextStep(steps, step) ==
    IF \E j \in 1..(Len(steps) - 1) : steps[j] = step
    THEN steps[(CHOOSE j \in 1..(Len(steps) - 1) : steps[j] = step) + 1]
    ELSE "done"

\* The position after the call step of the current mode.
After(step) == NextStep(Steps(mode), step)

\* The call op, which read the facts read, returned r: the registry it
\* leaves becomes CPUS, and the run goes on unless it raised.
Called(op, read, r) ==
    /\ CPUS' = r.cpus
    /\ last' = [op |-> op, read |-> read, before |-> CPUS, ok |-> r.ok,
                exc |-> r.exc, calls |-> r.calls, ret |-> r.ret]
    /\ pc' = IF r.ok THEN After(op) ELSE "error"

RunInit(modes) ==
    /\ CodecIdle
    /\ pc = "get_all_cpus"
    /\ mode \in modes
    /\ CPUS = <<>>
    /\ last = NoCall
    /\ report = None
    /\ verdict = None

\* CPUS = get_all_cpus(), line 809.
GetAllCpus(onlines) ==
    /\ pc = "get_all_cpus"
    /\ \E online \in onlines : Called("get_all_cpus", online, get_all_cpus(online))
    /\ UNCHANGED <<codec, mode, report, verdict>>

\* get_isolated_cpu(), lines 559, 600, 609, 620, 653.
GetIsolatedCpu(isolateds) ==
    /\ pc = "get_isolated_cpu"
    /\ \E isolated \in isolateds :
          Called("get_isolated_cpu", isolated, get_isolated_cpu(CPUS, isolated))
    /\ UNCHANGED <<codec, mode, report, verdict>>

\* get_network_cpu(get_interfaces()), lines 561-562, 602, 622, 654.
GetNetworkCpu(networks) ==
    /\ pc = "get_network_cpu"
    /\ \E interfaces \in networks :
          Called("get_network_cpu", interfaces, get_network_cpu(CPUS, interfaces))
    /\ UNCHANGED <<codec, mode, report, verdict>>

\* get_info_about_cpus(INCLUDE_DEAD_BS), lines 563, 601, 610, 621.
GetInfoAboutCpus(instance_lists, documents) ==
    /\ pc = "get_info_about_cpus"
    /\ \E instances \in instance_lists :
       \E docs \in [1..Len(instances) -> documents] :
          Called("get_info_about_cpus", [instances |-> instances, docs |-> docs],
                 get_info_about_cpus(CPUS, instances, docs))
    /\ UNCHANGED <<codec, mode, report, verdict>>

\* The loop of human_view over CPUS, lines 566-575: the ids it lists as
\* system cpus and as unused isolated cpus.
overview(cpus) ==
    [system_cpus |-> cpu_ids(SelectSeq(cpus, LAMBDA cpu : cpu.isolated = FALSE)),
     free_cpus |-> cpu_ids(SelectSeq(cpus, LAMBDA cpu :
                       cpu.isolated # FALSE /\ check_free_bender_cpu(cpu)))]

\* Lines 566-588 of human_view.
Overview ==
    /\ pc = "overview"
    /\ report' = overview(CPUS)
    /\ pc' = After("overview")
    /\ UNCHANGED <<codec, mode, CPUS, last, verdict>>

\* print(check_isolation_parameters(...)), lines 813 and 815: r is what the
\* function returned.
Checked(facts, r) ==
    /\ Called("check_isolation_parameters", facts, r)
    /\ verdict' = r.ret

\* check_isolation_parameters() and check_isolation_parameters(zabbix=True).
CheckIsolationParameters(hosts) ==
    /\ pc = "check_isolation_parameters"
    /\ \E facts \in hosts :
          Checked(facts, check_isolation_parameters(CPUS, mode = "zabbix_check", facts))
    /\ UNCHANGED <<codec, mode, report>>

-----------------------------------------------------------------------------
(* The inputs of the runs.                                                 *)

\* The names find_binstances returns, upper case and sorted (lines 229-242).
InstanceNames == <<"ALPHA", "BRAVO", "CHARLIE", "DELTA">>

InstanceLists == {SubSeq(InstanceNames, 1, n) : n \in 0..MaxInstances}

\* /sys/devices/system/cpu/online: four CPUs, two CPUs, and four CPUs with
\* CPU 1 offline.
OnlineFiles ==
    {<<"0", "-", "3", "\n">>, <<"0", "-", "1", "\n">>, <<"0", ",", "2", "-", "4", "\n">>}

\* /sys/devices/system/cpu/isolated: empty, some online CPUs, an id that is
\* not online, and a file that cannot be opened.
IsolatedFiles == {<<"\n">>, <<"2", "-", "3", "\n">>, <<"1", ",", "5", "\n">>, NoText}

NetworkFacts ==
    { <<>>,
      <<Interface("net0", <<<<"0", "\n">>>>)>>,
      <<Interface("net0", <<<<"2", "\n">>, <<"2", "-", "3", "\n">>>>), Interface("net1", <<>>)>>,
      <<Interface("net0", <<<<"3", "\n">>>>), Interface("net1", <<<<"3", "\n">>, <<"9", "\n">>>>)>> }

\* A few Runtime.xml documents for the runs that are not about extraction.
SomeDocuments ==
    { <<>>,
      <<Elem(<<"TrashCPU">>, <<"2">>, NoName)>>,
      <<Elem(<<"AllRobotsThCPU">>, <<"2", ",", "3">>, NoName),
        Elem(<<"CPUAlias">>, <<"3">>, "GatewaysDefault")>>,
      <<Elem(<<"DealsStream", "Cpu">>, <<"1", ",", "8">>, NoName)>>,
      Unreadable }

MainModes == {"human", "json", "telegraf_metrics", "net"}

Init == RunInit(MainModes)

Next ==
    \/ GetAllCpus(OnlineFiles)
    \/ GetIsolatedCpu(IsolatedFiles)
    \/ GetNetworkCpu(NetworkFacts)
    \/ GetInfoAboutCpus(InstanceLists, SomeDocuments)
    \/ Overview

Spec == Init /\ [][Next]_vars

-----------------------------------------------------------------------------
(* The extraction on its own: the run of zabbix_discovery for one instance *)
(* whose Runtime.xml is any sequence of up to MaxElems elements of         *)
(* ElemPool.                                                               *)

\* Elements of a Runtime.xml: children of the root and nested elements for
\* the four root.find roles, alias groups with a predeclared, a reserved and
\* an unknown name, and elements for two of the xpath lookups.  CPU 7 is
\* not online; "1-2" is a range, which int() refuses; NoText is an element
\* without the attribute Cores.
ElemPool ==
    { Elem(<<"TrashCPU">>, <<"0">>, NoName),
      Elem(<<"TrashCPU">>, <<"1", ",", "7">>, NoName),
      Elem(<<"TrashCPU">>, NoText, NoName),
      Elem(<<"Group", "TrashCPU">>, <<"1">>, NoName),
      Elem(<<"AllRobotsThCPU">>, <<"1">>, NoName),
      Elem(<<"CPUAlias">>, <<"0">>, "GatewaysDefault"),
      Elem(<<"CPUAlias">>, <<"7">>, "isolated"),
      Elem(<<"CPUAlias">>, <<"1">>, "MyPool"),
      Elem(<<"CPUAlias">>, <<"1">>, "cpu_id"),
      Elem(<<"Udp", "Send", "CPU">>, <<"1">>, NoName),
      Elem(<<"Net", "Udp", "Send", "CPU">>, <<"0", ",", "7">>, NoName),
      Elem(<<"ServicesCPU">>, <<"0">>, NoName),
      Elem(<<"Group", "ServicesCPU">>, <<"7">>, NoName),
      Elem(<<"DealsStream", "Cpu">>, <<"1", "-", "2">>, NoName) }

Documents == UNION {[1..n -> ElemPool] : n \in 0..MaxElems} \cup {Unreadable}

\* /sys/devices/system/cpu/isolated for the extraction: empty, and CPU 1.
ExtractIsolatedFiles == {<<"\n">>, <<"1", "\n">>}

ExtractInit == RunInit({"zabbix_discovery"})

ExtractNext ==
    \/ GetAllCpus({<<"0", "-", "1", "\n">>})
    \/ GetIsolatedCpu(ExtractIsolatedFiles)
    \/ GetInfoAboutCpus({<<"ALPHA">>}, Documents)

SpecExtract == ExtractInit /\ [][ExtractNext]_vars

-----------------------------------------------------------------------------
(* The isolation check on its own: the runs of the modes check and         *)
(* zabbix_check on the hosts of Hosts.                                     *)

\* The parameters every policy requires, as written in a boot string.
PolicyText ==
    <<"intel_idle.max_cstate", "=", "0", " ", "processor.max_cstate", "=", "0",
      " ", "idle", "=", "poll", " ", "mitigations", "=", "off", " ", "nosmt">>

\* The parameters only the default policy requires.
CgroupText ==
    <<"cgroup_disable", "=", "cpu", " ", "cgroup_disable", "=", "memory">>

\* What GRUB_CMDLINE_LINUX holds: isolcpus 2-3 with every required
\* parameter, the same ids written 3,2, the ids 2,4 without the cgroup
\* parameters, no isolcpus and a parameter with two "=", no such line, and a
\* file that cannot be opened.
GrubFacts ==
    { <<"isolcpus", "=", "2", "-", "3", " ">> \o PolicyText \o <<" ">> \o CgroupText,
      <<"isolcpus", "=", "3", ",", "2", " ">> \o PolicyText \o <<" ">> \o CgroupText,
      <<"isolcpus", "=", "2", ",", "4", " ">> \o PolicyText,
      <<"idle", "=", "poll", "=", "1", " ", " ", "quiet">>,
      NoGrubLine,
      NoText }

\* /proc/cmdline: as the first three of GrubFacts, then an isolcpus without
\* ids, an isolcpus that cannot be decoded, an empty file, and a file that
\* cannot be opened.
CmdlineFacts ==
    { <<"isolcpus", "=", "2", "-", "3", " ">> \o PolicyText \o <<" ">> \o CgroupText
          \o <<"\n">>,
      <<"isolcpus", "=", "2", ",", "3", " ">> \o PolicyText \o <<"\n">>,
      <<"isolcpus", "=", "2", ",", "4", " ">> \o PolicyText \o <<" ">> \o CgroupText
          \o <<"\n">>,
      <<"isolcpus", "=", " ", "nosmt", "\n">>,
      <<"isolcpus", "=", "2", "-", "\n">>,
      <<"\n">>,
      NoText }

\* primary_group of /etc/cmdb/cmdb_info.json.
GroupFacts ==
    {"Trade_QB_Test", "Workstation_Dev", "TRADE_ROXANA", "trade_other", NoName}

\* The running instances and their Runtime.xml: no instance, one instance
\* without and with an unknown CPU, and three instances of which the first
\* names two unknown CPUs in two elements, the second none and the third one.
InstanceFacts ==
    { [instances |-> <<>>, docs |-> <<>>],
      [instances |-> <<"ALPHA">>,
       docs |-> <<<<Elem(<<"TrashCPU">>, <<"2">>, NoName)>>>>],
      [instances |-> <<"ALPHA">>,
       docs |-> <<<<Elem(<<"TrashCPU">>, <<"2", ",", "7">>, NoName)>>>>],
      [instances |-> <<"ALPHA", "BRAVO", "CHARLIE">>,
       docs |-> << <<Elem(<<"TrashCPU">>, <<"2", ",", "7">>, NoName),
                     Elem(<<"CPUAlias">>, <<"8">>, "GatewaysDefault")>>,
                   <<Elem(<<"TrashCPU">>, <<"3">>, NoName)>>,
                   <<Elem(<<"AllRobotsThCPU">>, <<"9">>, NoName)>> >>] }

\* /sys/devices/system/cpu/smt/active: off, on, an unsupported value, and a
\* file that cannot be opened.
SmtFacts == {<<"0", "\n">>, <<"1", "\n">>, <<"n", "o", "\n">>, NoText}

\* psutil.cpu_count(logical=True) and psutil.cpu_count(logical=False).
CpuCountFacts == {<<4, 4>>, <<8, 4>>}

\* /sys/devices/system/cpu/isolated for the check: empty, 2-3, 2,4, and a
\* range that holds no id.
CheckIsolatedFiles ==
    {<<"\n">>, <<"2", "-", "3", "\n">>, <<"2", ",", "4", "\n">>, <<"3", "-", "2", "\n">>}

Hosts ==
    { [primary_group |-> g, instances |-> i.instances, docs |-> i.docs,
       grub |-> gr, cmdline |-> c, isolated |-> s, smt_active |-> a,
       logical |-> n[1], physical |-> n[2]] :
         g \in GroupFacts, i \in InstanceFacts, gr \in GrubFacts,
         c \in CmdlineFacts, s \in CheckIsolatedFiles, a \in SmtFacts,
         n \in CpuCountFacts }

\* /sys/devices/system/cpu/online for the check: five CPUs, and a file that
\* cannot be opened.
CheckOnlineFiles == {<<"0", "-", "4", "\n">>, NoText}

CheckInit == RunInit({"check", "zabbix_check"})

CheckNext ==
    \/ GetAllCpus(CheckOnlineFiles)
    \/ CheckIsolationParameters(Hosts)

SpecCheck == CheckInit /\ [][CheckNext]_vars


-----------------------------------------------------------------------------
(* The creation of the registry on its own: get_all_cpus on every text of  *)
(* CodecTexts as the content of /sys/devices/system/cpu/online, a line     *)
(* feed after it or not.                                                   *)

OnlineTexts == CodecTexts \cup {Append(t, "\n") : t \in CodecTexts}

DiscoverInit == RunInit({"net"})

DiscoverNext == GetAllCpus(OnlineTexts)

SpecDiscover == DiscoverInit /\ [][DiscoverNext]_vars


-----------------------------------------------------------------------------
(* The parsing of a boot parameter string on its own: refactor_parameters  *)
(* on every string of up to MaxTokens parameters of BootTokens with a      *)
(* space between them.                                                     *)

\* Parameters of a boot parameter string: isolcpus with a range and without
\* ids, a cgroup_disable, two values for idle, a value that holds a "=", a
\* bare parameter, and the empty parameter two adjacent spaces make.
BootTokens ==
    { <<"isolcpus", "=", "2", "-", "3">>,
      <<"isolcpus", "=">>,
      <<"cgroup_disable", "=", "cpu">>,
      <<"idle", "=", "poll">>,
      <<"idle", "=", "halt">>,
      <<"root", "=", "UUID", "=", "abc">>,
      <<"nosmt">>,
      <<>> }

BootTexts ==
    {PyJoin(tokens, " ") : tokens \in UNION {[1..n -> BootTokens] : n \in 0..MaxTokens}}

BootInit == CodecIdle /\ RunIdle

\* refactor_parameters(data), lines 197-214, on a boot parameter string, as
\* lines 250 and 257 call it.
RefactorParameters(texts) ==
    /\ pc = "idle"
    /\ \E data \in texts :
          last' = [op |-> "refactor_parameters", read |-> data, before |-> CPUS,
                   ok |-> refactor_parameters(data).ok,
                   exc |-> IF refactor_parameters(data).ok THEN ""
                           ELSE refactor_parameters(data).val,
                   calls |-> <<>>,
                   ret |-> IF refactor_parameters(data).ok
                           THEN refactor_parameters(data).val ELSE None]
    /\ pc' = "done"
    /\ UNCHANGED <<codec, mode, CPUS, report, verdict>>

BootNext == RefactorParameters(BootTexts)

SpecBoot == BootInit /\ [][BootNext]_vars
-----------------------------------------------------------------------------
(* Claims about the codec.                                                 *)

\* The tokens of a text, and the ids a well-formed token stands for.
Tokens(t) == PySplit(t, ",")

IsNumber(s) == s # <<>> /\ \A i \in 1..Len(s) : s[i] \in DigitChars

\* A token of the notation: a number, or two numbers joined by a hyphen.
IsToken(tok) ==
    \/ IsNumber(tok)
    \/ LET parts == PySplit(tok, "-")
       IN  Len(parts) = 2 /\ IsNumber(parts[1]) /\ IsNumber(parts[2])

TokLo(tok) == DigitsValue(PySplit(tok, "-")[1], 0)

TokHi(tok) == LET parts == PySplit(tok, "-") IN DigitsValue(parts[Len(parts)], 0)

\* A valid range text whose tokens are in non-decreasing, non-overlapping
\* order, read in the way most favourable to the round trip: every token is
\* well formed, start <= end, and every token starts above the end of the
\* token before it.
ValidOrdered(t) ==
    LET toks == Tokens(t)
    IN  /\ \A i \in 1..Len(toks) : IsToken(toks[i]) /\ TokLo(toks[i]) <= TokHi(toks[i])
        /\ \A i \in 1..(Len(toks) - 1) : TokHi(toks[i]) < TokLo(toks[i + 1])

NoLeadingZero(s) == Len(s) = 1 \/ s[1] # "0"

\* The canonical form: numbers without leading zeros, a range only for
\* start < end, and every token starting at least 2 above the end of the one
\* before it (two adjacent tokens would be one run).
Canonical(t) ==
    LET toks == Tokens(t)
    IN  /\ ValidOrdered(t)
        /\ \A i \in 1..Len(toks) :
              LET parts == PySplit(toks[i], "-")
              IN  /\ \A j \in 1..Len(parts) : NoLeadingZero(parts[j])
                  /\ Len(parts) = 2 => TokLo(toks[i]) < TokHi(toks[i])
        /\ \A i \in 1..(Len(toks) - 1) : TokHi(toks[i]) + 2 <= TokLo(toks[i + 1])

\* C1 (as claimed): for every sorted duplicate-free list x of ids, the empty
\* list included, decode(encode(x)) returns exactly x.
C1_DecodeEncodeRoundTrip ==
    codec.pc = "encoded_decoded" =>
        codec.decoded.ok /\ codec.decoded.val = codec.nums

C3_EmptyCodec ==
    /\ (codec.pc = "decoded" /\ codec.text = <<>>) =>
           codec.decoded.ok /\ codec.decoded.val = <<>>
    /\ (codec.pc = "encoded" /\ codec.nums = <<>>) => codec.encoded = <<>>

\* C4 (as claimed): decode("0,1,2-5,111") = [0,1,2,3,4,5,111] and
\* encode([0,1,2,3,4,5,111]) = "0,1,2-5,111".
C4_DocExample ==
    /\ (codec.pc = "decoded" /\ codec.text = DocText) =>
           codec.decoded.ok /\ codec.decoded.val = DocList
    /\ (codec.pc = "encoded" /\ codec.nums = DocList) => codec.encoded = DocText

-----------------------------------------------------------------------------
(* Claims about the registry.                                              *)

\* The ids of the CPUs of a registry.
IdsOf(cpus) == {cpus[k].cpu_id : k \in 1..Len(cpus)}

\* The cores of an update_cpus call that name no CPU of the registry the
\* call found, in the order of the call.
UnknownCores(call) ==
    SelectSeq(call.cores_list,
              LAMBDA core : PyInt(core).ok /\ PyInt(core).val \notin IdsOf(call.before))

\* The ids an update_cpus call addresses.
AddressedIds(call) ==
    {PyInt(call.cores_list[i]).val : i \in 1..Len(call.cores_list)}

\* What C5 says of one update_cpus call that returned.
UnknownCpuHandled(call) ==
    call.ok =>
        /\ call.errors = [i \in 1..Len(UnknownCores(call)) |->
                             DoesntExist(call.upd_param, UnknownCores(call)[i])]
        /\ Len(call.after) = Len(call.before)
        /\ \A k \in 1..Len(call.before) :
              call.before[k].cpu_id \notin AddressedIds(call) =>
                  call.after[k] = call.before[k]
        /\ Len(UnknownCores(call)) = Len(call.cores_list) =>
              call.after = call.before

\* C5: in every update_cpus call that returns, whatever the registry and the
\* role name, every core that names no CPU of the registry yields exactly
\* one "doesnt exist" entry, in order, and changes no CPU: a CPU that no
\* core names is as it was, and a call whose cores are all unknown leaves
\* the whole registry as it was.
C5_UnknownCpu ==
    last.op = "get_info_about_cpus" =>
        \A i \in 1..Len(last.calls) : UnknownCpuHandled(last.calls[i])

\* An update_cpus call for the reserved role name isolated whose only core
\* is unknown has returned, on a registry that already holds a role.
C5_Witness ==
    /\ last.op = "get_info_about_cpus"
    /\ \E i \in 1..Len(last.calls) :
          /\ last.calls[i].ok
          /\ last.calls[i].upd_param = "isolated"
          /\ Len(last.calls[i].cores_list) = 1
          /\ Len(UnknownCores(last.calls[i])) = 1
          /\ Len(last.calls[i].errors) = 1
          /\ \E k \in 1..Len(last.calls[i].before) :
                last.calls[i].before[k].attrs["TrashCPU"] # <<>>

\* The ids the kernel reports in /sys/devices/system/cpu/isolated, for the
\* files of IsolatedFiles that can be opened.
KernelIsolated(file) ==
    IF file = <<"2", "-", "3", "\n">> THEN {2, 3}
    ELSE IF file = <<"1", ",", "5", "\n">> THEN {1, 5}
    ELSE {}

\* C6: get_isolated_cpu returns for every file that can be opened, and after
\* it a CPU of the registry is isolated exactly if its id is in the set the
\* kernel reports; an id of the set that is not in the registry changes
\* nothing, and no id, role list or position of a CPU changes.
C6_MarkIsolated ==
    last.op = "get_isolated_cpu" =>
        /\ last.read # NoText => last.ok
        /\ last.ok =>
              /\ Len(CPUS) = Len(last.before)
              /\ \A k \in 1..Len(CPUS) :
                    /\ CPUS[k].cpu_id = last.before[k].cpu_id
                    /\ CPUS[k].attrs = last.before[k].attrs
                    /\ CPUS[k].isolated
                          = (CPUS[k].cpu_id \in KernelIsolated(last.read))

\* get_isolated_cpu has returned for a kernel set with an id that is not in
\* the registry (5) and an id that is (1), on a registry whose ids are not
\* their positions.
C6_Witness ==
    /\ last.op = "get_isolated_cpu"
    /\ last.ok
    /\ last.read = <<"1", ",", "5", "\n">>
    /\ 5 \notin IdsOf(CPUS)
    /\ \E k \in 1..Len(CPUS) : CPUS[k].isolated /\ CPUS[k].cpu_id = 1

-----------------------------------------------------------------------------
(* Claims about the isolation check.                                       *)

\* The value a source of the check holds for the isolated CPUs, for the
\* texts of CheckIsolatedFiles, GrubFacts and CmdlineFacts that can be read:
\* the ids in the order they are written, None without ids.
Listed(text) ==
    IF text[1] = "isolcpus" /\ Len(text) >= 5
    THEN IF SubSeq(text, 3, 5) = <<"2", "-", "3">> THEN PyList(<<2, 3>>)
         ELSE IF SubSeq(text, 3, 5) = <<"3", ",", "2">> THEN PyList(<<3, 2>>)
         ELSE IF SubSeq(text, 3, 5) = <<"2", ",", "3">> THEN PyList(<<2, 3>>)
         ELSE IF SubSeq(text, 3, 5) = <<"2", ",", "4">> THEN PyList(<<2, 4>>)
         ELSE None
    ELSE IF text = <<"2", "-", "3", "\n">> THEN PyList(<<2, 3>>)
    ELSE IF text = <<"2", ",", "4", "\n">> THEN PyList(<<2, 4>>)
    ELSE IF text = <<"3", "-", "2", "\n">> THEN PyList(<<>>)
    ELSE None

\* The set of ids of a value of Listed.
IdSet(value) == IF value.t = "list" THEN Range(value.v) ELSE {}

\* The host groups of GroupFacts that line 486 names.
ExemptGroups == {"Trade_QB_Test", "Workstation_Dev"}

\* The check of last was not cut short by lines 484-490.
Compared ==
    /\ last.op = "check_isolation_parameters"
    /\ last.ok
    /\ ~(/\ mode = "zabbix_check"
         /\ \/ last.read.primary_group \in ExemptGroups
            \/ last.read.instances = <<>>)

\* The check of last returned "OK" at line 487 or 490.
Skipped ==
    /\ last.op = "check_isolation_parameters"
    /\ last.ok
    /\ mode = "zabbix_check"
    /\ \/ last.read.primary_group \in ExemptGroups
       \/ last.read.instances = <<>>

\* The files the isolated-set sentences of the Verdict name besides the
\* kernel's file, in the order of the sentences.
MismatchFiles ==
    LET d == SelectSeq(verdict.descs, LAMBDA x : x.kind = "Isolated cpu not eq")
    IN  [i \in 1..Len(d) |-> d[i].about]

\* The kernel's set equals the bootloader's and the cmdline's differs.
CmdlineAlone ==
    /\ IdSet(Listed(last.read.isolated)) = IdSet(Listed(last.read.grub))
    /\ IdSet(Listed(last.read.cmdline)) # IdSet(Listed(last.read.isolated))

HasNoIsolatedCpus ==
    \E i \in 1..Len(verdict.descs) :
        verdict.descs[i].kind = "The server does not have isolated cpus"

\* C8 (as claimed): whenever the kernel's isolated set is empty, the Verdict
\* the check returns has the "no isolated cpus" sentence, whatever the
\* bootloader, the cmdline, the host group and the instances are.
C8_NoIsolatedAlways ==
    (/\ last.op = "check_isolation_parameters"
     /\ last.ok
     /\ IdSet(Listed(last.read.isolated)) = {}) => HasNoIsolatedCpus

\* C8 (amended): a check that is not cut short returns a Verdict with the
\* "no isolated cpus" sentence exactly if the kernel's isolated set is empty;
\* in the zabbix mode a check on a host of a test group or without a running
\* instance returns "OK" without any sentence, the set being empty or not.
C8_NoIsolatedUnlessSkipped ==
    /\ Compared => (HasNoIsolatedCpus <=> IdSet(Listed(last.read.isolated)) = {})
    /\ Skipped => verdict = Verdict("OK", <<>>)

\* A zabbix check that was not cut short has returned the sentence for an
\* empty kernel file on a host whose other sources name 2-3.
C8_Witness ==
    /\ Compared
    /\ mode = "zabbix_check"
    /\ last.read.isolated = <<"\n">>
    /\ PyEq(Listed(last.read.grub), PyList(<<2, 3>>))
    /\ PyEq(Listed(last.read.cmdline), PyList(<<2, 3>>))
    /\ verdict.form = "Error"
    /\ HasNoIsolatedCpus

-----------------------------------------------------------------------------
(* Claims about the extraction.                                            *)

\* The roles root.find looks up and the roles root.xpath looks up, with the
\* elements of a document that match each.
FindRoles == Range(parameters_list)

XPathRoles == {"UdpSendCores", "UdpReceiveCores", "ClickHouseCores", "Kafka", "ServicesCPU"}

LookupSteps(role) ==
    CASE role = "UdpSendCores" -> <<"Udp", "Send", "CPU">>
      [] role = "UdpReceiveCores" -> <<"Udp", "Receive", "CPU">>
      [] role = "ClickHouseCores" -> <<"TSDatabases", "TSDB", "Threads">>
      [] role = "Kafka" -> <<"DealsStream", "Cpu">>
      [] role = "ServicesCPU" -> <<"ServicesCPU">>

Matches(elems, role) ==
    IF role \in FindRoles THEN SelectSeq(elems, LAMBDA e : e.path = <<role>>)
    ELSE XmlXPath(elems, LookupSteps(role))

\* The update_cpus calls of last made for a role on behalf of an instance.
CallsFor(role, instance) ==
    SelectSeq(last.calls,
              LAMBDA c : c.upd_param = role /\ c.upd_instance = instance)

\* C9 (as claimed): for every role of the fixed list of lookups, a document
\* with two elements matching the role's lookup produces no assignment and
\* no error entry for the role from that instance.
C9_TwoMatchesNoAssignment ==
    last.op = "get_info_about_cpus" =>
        \A i \in 1..Len(last.read.instances) :
        \A role \in FindRoles \cup XPathRoles :
            Len(Matches(last.read.docs[i], role)) = 2 =>
                CallsFor(role, last.read.instances[i]) = <<>>

\* C9 (amended): for the roles looked up by xpath (Udp Send/Receive,
\* ClickHouseCores, Kafka, ServicesCPU) a document with two or more matching
\* elements produces no update_cpus call for the role from that instance,
\* so no assignment and no error entry; for the roles looked up by root.find
\* (AllRobotsThCPU, TrashCPU, RemoteFormulaCPU, DumperCPU) a run that
\* returns has made exactly one call for the role, with the Cores of the
\* first matching child of the root, however many children match.
C9_TwoMatchesXPathOnly ==
    last.op = "get_info_about_cpus" =>
        \A i \in 1..Len(last.read.instances) :
            /\ \A role \in XPathRoles :
                  Len(Matches(last.read.docs[i], role)) >= 2 =>
                      CallsFor(role, last.read.instances[i]) = <<>>
            /\ \A role \in FindRoles :
                  (last.ok /\ Len(Matches(last.read.docs[i], role)) >= 1) =>
                      /\ Len(CallsFor(role, last.read.instances[i])) = 1
                      /\ CallsFor(role, last.read.instances[i])[1].cores_list
                            = PySplit(Matches(last.read.docs[i], role)[1].Cores, ",")

\* A run has returned for a document with two elements matching
\* .//ServicesCPU, one of them nested.
C9_Witness ==
    /\ last.op = "get_info_about_cpus"
    /\ last.ok
    /\ Len(Matches(last.read.docs[1], "ServicesCPU")) = 2
    /\ \E j \in 1..2 : Len(last.read.docs[1][j].path) = 2
    /\ CallsFor("ServicesCPU", "ALPHA") = <<>>

\* Every role list of a CPU other than net_cpu is empty.
NoInstanceRole(cpu) ==
    \A a \in RoleAttributes \ {"net_cpu"} : cpu.attrs[a] = <<>>

\* human_view has made its overview.
Reported == mode = "human" /\ pc = "done"

\* C10 (as claimed): check_free_bender_cpu returns true for a CPU if and
\* only if the CPU is isolated and every role list other than net_cpu is
\* empty, so it is false for every CPU that is not isolated.
C10_FreeIffIsolatedNoRole ==
    Reported =>
        \A k \in 1..Len(CPUS) :
            check_free_bender_cpu(CPUS[k])
                <=> (CPUS[k].isolated /\ NoInstanceRole(CPUS[k]))

\* C10 (amended): check_free_bender_cpu returns true for a CPU if and only
\* if every role list other than net_cpu is empty, isolated or not; the
\* overview of human_view lists a CPU as unused if and only if it is isolated
\* and check_free_bender_cpu is true for it, so a CPU that is not isolated
\* is never listed.
C10_ReportedFreeIffIsolatedNoRole ==
    Reported =>
        \A k \in 1..Len(CPUS) :
            /\ check_free_bender_cpu(CPUS[k]) <=> NoInstanceRole(CPUS[k])
            /\ CPUS[k].cpu_id \in Range(report.free_cpus)
                  <=> (CPUS[k].isolated /\ NoInstanceRole(CPUS[k]))

\* The overview is made with an isolated CPU that holds net_cpu alone and is
\* listed, an isolated CPU that holds TrashCPU too and is not, and a CPU
\* that is not isolated, holds no role and is not listed.
C10_Witness ==
    /\ Reported
    /\ \E k \in 1..Len(CPUS) :
          /\ CPUS[k].isolated /\ CPUS[k].attrs["net_cpu"] # <<>>
          /\ NoInstanceRole(CPUS[k])
          /\ CPUS[k].cpu_id \in Range(report.free_cpus)
    /\ \E k \in 1..Len(CPUS) :
          /\ CPUS[k].isolated /\ CPUS[k].attrs["TrashCPU"] # <<>>
          /\ CPUS[k].cpu_id \notin Range(report.free_cpus)
    /\ \E k \in 1..Len(CPUS) :
          /\ ~CPUS[k].isolated /\ NoInstanceRole(CPUS[k])
          /\ CPUS[k].attrs["net_cpu"] = <<>>
          /\ CPUS[k].cpu_id \notin Range(report.free_cpus)


-----------------------------------------------------------------------------
(* Claims about alias groups, ranges in Cores and malformed documents.     *)

\* Every element of a document is an alias group with a Name and Cores.
AliasGroupsOnly(elems) ==
    \A j \in 1..Len(elems) :
        /\ elems[j].path = <<"CPUAlias">>
        /\ elems[j].Name # NoName
        /\ elems[j].Cores # NoText

\* The CPU at position k of CPUS holds the instance under the role name.
HoldsRole(k, name, instance) ==
    /\ name \in DOMAIN CPUS[k].attrs
    /\ instance \in Range(CPUS[k].attrs[name])

\* C11 (as claimed): an alias group with any name its author chose, a name
\* that CpuInfo does not predeclare included, is accepted: the extraction
\* of a document of alias groups returns, and every CPU of the registry that
\* a group addresses holds the instance under the group's name.
C11_AliasAnyName ==
    last.op = "get_info_about_cpus" =>
        \A i \in 1..Len(last.read.instances) :
            AliasGroupsOnly(last.read.docs[i]) =>
                /\ last.ok
                /\ \A j \in 1..Len(last.read.docs[i]) :
                   \A k \in 1..Len(CPUS) :
                      PyStr(CPUS[k].cpu_id)
                            \in Range(PySplit(last.read.docs[i][j].Cores, ","))
                         => HoldsRole(k, last.read.docs[i][j].Name,
                                      last.read.instances[i])

\* Every entry of the Cores list of an update_cpus call is a token of the
\* range notation: a number or a start-end range.
RangeTokens(call) ==
    \A c \in 1..Len(call.cores_list) : cpu_sorted(call.cores_list[c]).ok

\* The ids the range notation gives the Cores list of an update_cpus call.
DecodedIds(call) ==
    UNION {Range(cpu_sorted(call.cores_list[c]).val) : c \in 1..Len(call.cores_list)}

\* C12 (as claimed): the Cores of every extracted role are decoded with the
\* range notation of cpu_sorted, so a value with a start-end range is
\* accepted and every CPU of the registry from start to end holds the
\* instance under the role.
C12_CoresRangeDecoded ==
    last.op = "get_info_about_cpus" =>
        \A i \in 1..Len(last.calls) :
            (last.calls[i].upd_param \in RoleAttributes /\ RangeTokens(last.calls[i])) =>
                /\ last.calls[i].ok
                /\ \A k \in 1..Len(last.calls[i].after) :
                      last.calls[i].after[k].cpu_id \in DecodedIds(last.calls[i]) =>
                          last.calls[i].upd_instance
                              \in Range(last.calls[i].after[k].attrs[last.calls[i].upd_param])

\* The instance at position i of the run has an error entry.
HasErrorEntry(i) ==
    \E j \in 1..Len(last.ret.cpu_error) :
        last.ret.cpu_error[j].instance = last.read.instances[i]

\* The requests of the instance at position i were passed to update_cpus.
Extracted(i) ==
    bender_requests(last.read.docs[i]) # <<>> =>
        \E c \in 1..Len(last.calls) :
            last.calls[c].upd_instance = last.read.instances[i]

\* C13 (as claimed): when the Runtime.xml of one instance cannot be parsed,
\* get_info_about_cpus still returns, the failure is an error entry for
\* that instance, and every other instance is extracted and applied.
C13_MalformedContinues ==
    last.op = "get_info_about_cpus" =>
        \A i \in 1..Len(last.read.instances) :
            last.read.docs[i] = Unreadable =>
                /\ last.ok
                /\ HasErrorEntry(i)
                /\ \A o \in 1..Len(last.read.instances) :
                      last.read.docs[o] # Unreadable => Extracted(o)

-----------------------------------------------------------------------------
(* Claims about the errors and the facts of the isolation check.           *)

\* The check of last has returned a Verdict.
Returned == last.op = "check_isolation_parameters" /\ last.ok

\* The entries of the "Invalid cpus" sentences of the Verdict, in order.
InvalidCpus ==
    Flatten([d \in 1..Len(verdict.descs) |->
                IF verdict.descs[d].kind = "Invalid cpus"
                THEN verdict.descs[d].items ELSE <<>>])

\* The "doesnt exist" entries of one update_cpus call, in order.
UnknownEntries(call) ==
    [c \in 1..Len(UnknownCores(call)) |->
        DoesntExist(call.upd_param, UnknownCores(call)[c])]

\* The "doesnt exist" entries of the update_cpus calls made for an instance
\* during the check, in the order of the calls.
FailuresOf(instance) ==
    Flatten([c \in 1..Len(last.calls) |->
                IF last.calls[c].upd_instance = instance
                THEN UnknownEntries(last.calls[c]) ELSE <<>>])

\* The entries of the Verdict tagged with an instance.
EntriesOf(instance) ==
    SelectSeq(InvalidCpus, LAMBDA e : e.instance = instance)

\* C14: in the Verdict a check returns, every instance for which update_cpus
\* met an unknown CPU has exactly one entry, tagged with the instance and
\* listing all its unknown-CPU requests in the order they were made; an
\* instance without such a request has no entry, and every entry belongs to
\* an instance of the run.
C14_UnknownCpusInVerdict ==
    Returned =>
        /\ \A i \in 1..Len(last.read.instances) :
              EntriesOf(last.read.instances[i])
                  = IF FailuresOf(last.read.instances[i]) # <<>>
                    THEN <<InstanceErrors(last.read.instances[i],
                                          FailuresOf(last.read.instances[i]))>>
                    ELSE <<>>
        /\ \A e \in 1..Len(InvalidCpus) :
              InvalidCpus[e].instance \in Range(last.read.instances)

\* A check of three instances has returned: ALPHA met two unknown CPUs in
\* two elements and has one entry with both, BRAVO met none and has no
\* entry, CHARLIE met one.
C14_Witness ==
    /\ Returned
    /\ last.read.instances = <<"ALPHA", "BRAVO", "CHARLIE">>
    /\ Len(InvalidCpus) = 2
    /\ InvalidCpus[1].instance = "ALPHA"
    /\ Len(InvalidCpus[1].errors) = 2
    /\ EntriesOf("BRAVO") = <<>>
    /\ InvalidCpus[2].instance = "CHARLIE"

\* No CPU of the registry is isolated and the call of last changed nothing.
NoIsolation ==
    /\ CPUS = last.before
    /\ \A k \in 1..Len(CPUS) : ~CPUS[k].isolated

CutShort ==
    /\ mode = "zabbix_check"
    /\ \/ last.read.primary_group \in ExemptGroups
       \/ last.read.instances = <<>>

\* A source of the check cannot be opened.
UnreadableSource ==
    \/ last.read.grub = NoText
    \/ last.read.cmdline = NoText
    \/ last.read.smt_active = NoText
    \/ last.read.primary_group = NoName

\* No Verdict was printed.
NoVerdict == "form" \notin DOMAIN verdict

\* The exceptions the facts of a host raise in a check that is not cut
\* short, in the order the check meets them: the files of lines 492-493,
\* the two .get of lines 500-503, the file of line 509 and the file of
\* line 512.
Failures(facts) ==
    (IF facts.grub = NoText THEN <<"OSError">> ELSE <<>>)
    \o (IF facts.cmdline = NoText THEN <<"OSError">> ELSE <<>>)
    \o (IF facts.cmdline = <<"isolcpus", "=", "2", "-", "\n">>
        THEN <<"ValueError">> ELSE <<>>)
    \o (IF facts.grub = NoGrubLine \/ facts.cmdline = <<"\n">>
        THEN <<"AttributeError">> ELSE <<>>)
    \o (IF facts.smt_active = NoText THEN <<"OSError">> ELSE <<>>)
    \o (IF facts.smt_active = <<"n", "o", "\n">> THEN <<"Exception">> ELSE <<>>)
    \o (IF facts.primary_group = NoName THEN <<"OSError">> ELSE <<>>)

-----------------------------------------------------------------------------
(* Claims about the creation of the registry.                              *)

\* C17 (as claimed): get_all_cpus rejects an online file that names an id
\* twice, so no two CPUs of a registry have the same id.
C17_UniqueIds ==
    \A j, k \in 1..Len(CPUS) : j # k => CPUS[j].cpu_id # CPUS[k].cpu_id

-----------------------------------------------------------------------------
(* Claims about the comparisons of the isolation check.                    *)

\* The value of Listed for the source an isolated-set sentence names.
ListedIn(file) ==
    IF file = "/etc/default/grub" THEN Listed(last.read.grub)
    ELSE Listed(last.read.cmdline)

\* C18 (as claimed): the kernel's isolated CPUs are compared with the
\* bootloader's and the cmdline's as sets, so a source that names the same
\* ids as the kernel, in another order or with repeats, has no isolated-set
\* sentence in the Verdict.
C18_ComparedAsSets ==
    Compared =>
        \A s \in 1..Len(MismatchFiles) :
            IdSet(ListedIn(MismatchFiles[s])) # IdSet(Listed(last.read.isolated))

\* The keys every policy requires, and the keys only the default policy
\* requires (lines 788-806).
CommonKeys ==
    {<<"intel_idle.max_cstate">>, <<"processor.max_cstate">>, <<"idle">>,
     <<"mitigations">>, <<"nosmt">>}

CgroupKeys == {<<"cgroup_disable_", "cpu">>, <<"cgroup_disable_", "memory">>}

\* The keys the policy of a host group requires: the group trade_roxana has
\* an entry, every other group of GroupFacts gets the default policy.
RequiredKeys(group) ==
    IF group = "TRADE_ROXANA" THEN CommonKeys ELSE CommonKeys \cup CgroupKeys

\* The required keys a boot string of GrubFacts or CmdlineFacts writes with
\* the required value: in these strings a key is written with its required
\* value wherever its word appears.
Written(text) ==
    {key \in CommonKeys \cup CgroupKeys : key[Len(key)] \in Range(text)}

\* The "Invalid parameters" sentences of the Verdict for a source.
ParameterSentences(source) ==
    SelectSeq(verdict.descs,
              LAMBDA d : d.kind = "Invalid parameters" /\ d.about = source)

\* What C19 says of one source, given the text the source holds.
PolicyChecked(source, text) ==
    IF RequiredKeys(last.read.primary_group) \subseteq Written(text)
    THEN ParameterSentences(source) = <<>>
    ELSE /\ Len(ParameterSentences(source)) = 1
         /\ Range(ParameterSentences(source)[1].items)
               = RequiredKeys(last.read.primary_group) \ Written(text)
         /\ Len(ParameterSentences(source)[1].items)
               = Cardinality(RequiredKeys(last.read.primary_group) \ Written(text))

-----------------------------------------------------------------------------
(* Claims about the per-instance output.                                   *)

\* An update_cpus call of last addressed the CPU id under the role for the
\* instance.
AssignedUnder(id, role, instance) ==
    \E c \in 1..Len(last.calls) :
        /\ last.calls[c].upd_param = role
        /\ last.calls[c].upd_instance = instance
        /\ \E x \in 1..Len(last.calls[c].cores_list) :
              /\ PyInt(last.calls[c].cores_list[x]).ok
              /\ PyInt(last.calls[c].cores_list[x]).val = id

\* The ids of the CPUs of the registry assigned to the instance under the
\* role, in the order of the registry.
OccupiedIds(role, instance) ==
    SelectSeq(cpu_ids(CPUS), LAMBDA id : AssignedUnder(id, role, instance))

\* The entry of instance_info for the instance at position i.
InfoOf(i) == last.ret.instance_info[i]

Ascending(ids) == \A a, b \in 1..Len(ids) : a < b => ids[a] < ids[b]

\* get_info_about_cpus has returned its result.
Informed == last.op = "get_info_about_cpus" /\ last.ok

\* C20 (as claimed): the output maps every instance to its roles and every
\* role to the range text of the ids the instance occupies under it, sorted
\* ascending; a role is present exactly if a CPU was assigned to the
\* instance under it.
C20_RolesRangeEncoded ==
    Informed =>
        \A i \in 1..Len(last.read.instances) :
        \A role \in RoleAttributes :
            /\ role \in DOMAIN InfoOf(i)
                  <=> OccupiedIds(role, last.read.instances[i]) # <<>>
            /\ role \in DOMAIN InfoOf(i) =>
                  PyEq(InfoOf(i)[role],
                       PyStrVal(convert_to_ranges(
                           SortedSeq(Range(OccupiedIds(role, last.read.instances[i]))))))

\* C20 (amended): the output maps every instance to its roles and every
\* role to the list of the ids the instance occupies under it, in the order
\* of the registry, which is ascending; the list is not range-encoded.  A
\* role is present exactly if a CPU was assigned to the instance under it,
\* and a CPU is listed exactly for the roles it was assigned under.
C20_RolesListed ==
    Informed =>
        \A i \in 1..Len(last.read.instances) :
        \A role \in RoleAttributes :
            /\ role \in DOMAIN InfoOf(i)
                  <=> OccupiedIds(role, last.read.instances[i]) # <<>>
            /\ role \in DOMAIN InfoOf(i) =>
                  /\ PyEq(InfoOf(i)[role],
                          PyList(OccupiedIds(role, last.read.instances[i])))
                  /\ Ascending(OccupiedIds(role, last.read.instances[i]))
            /\ DOMAIN InfoOf(i) \subseteq RoleAttributes

\* The output is returned for two instances: ALPHA occupies CPUs 2 and 3
\* under AllRobotsThCPU and CPU 3 under an alias group, BRAVO occupies CPU 2
\* under TrashCPU and nothing under AllRobotsThCPU.
C20_Witness ==
    /\ Informed
    /\ last.read.instances = <<"ALPHA", "BRAVO">>
    /\ "AllRobotsThCPU" \in DOMAIN InfoOf(1)
    /\ PyEq(InfoOf(1)["AllRobotsThCPU"], PyList(<<2, 3>>))
    /\ "GatewaysDefault" \in DOMAIN InfoOf(1)
    /\ PyEq(InfoOf(1)["GatewaysDefault"], PyList(<<3>>))
    /\ "TrashCPU" \notin DOMAIN InfoOf(1)
    /\ "TrashCPU" \in DOMAIN InfoOf(2)
    /\ PyEq(InfoOf(2)["TrashCPU"], PyList(<<2>>))
    /\ "AllRobotsThCPU" \notin DOMAIN InfoOf(2)

-----------------------------------------------------------------------------
(* Claims about the network interfaces.                                    *)

\* get_network_cpu has returned.
Resolved == last.op = "get_network_cpu" /\ last.ok

\* C21 (as claimed): an interrupt affinity that names a CPU outside the
\* registry does not abort get_network_cpu, and the "doesnt exist" entry
\* update_cpus makes for it is in the list of errors the resolver hands on.
C21_InterfaceErrorsRecorded ==
    last.op = "get_network_cpu" =>
        /\ last.ok
        /\ \A c \in 1..Len(last.calls) :
              UnknownEntries(last.calls[c]) # <<>> =>
                  /\ last.ret.t = "list"
                  /\ \A e \in 1..Len(UnknownEntries(last.calls[c])) :
                        UnknownEntries(last.calls[c])[e] \in Range(last.ret.v)

\* The CPU ids an smp_affinity_list text of the hosts names.
AffinityIds(text) ==
    IF text = <<"0", "\n">> THEN {0}
    ELSE IF text = <<"2", "\n">> THEN {2}
    ELSE IF text = <<"2", "-", "3", "\n">> THEN {2, 3}
    ELSE IF text = <<"3", "\n">> THEN {3}
    ELSE IF text = <<"9", "\n">> THEN {9}
    ELSE {}

\* The union of the affinity lists of the interrupts of an interface.
UnionOfAffinity(interface) ==
    UNION {AffinityIds(interface.affinity[i]) : i \in 1..Len(interface.affinity)}

\* The update_cpus calls made for an interface.
CallsOf(name) == SelectSeq(last.calls, LAMBDA call : call.upd_instance = name)

\* C22: one pass of get_network_cpu makes, for each interface with matching
\* interrupts, one update_cpus call whose cores are the union of the
\* affinity lists of these interrupts, in ascending order and without
\* repeats, and none for an interface without matching interrupts, which
\* is no error; so each CPU's net_cpu list gains the name of an interface
\* exactly once when the union names the CPU and not at all otherwise.
C22_InterfaceOncePerCpu ==
    Resolved =>
        /\ \A i \in 1..Len(last.read) :
              /\ Len(CallsOf(last.read[i].name)) =
                     (IF last.read[i].affinity = <<>> THEN 0 ELSE 1)
              /\ \A c \in 1..Len(CallsOf(last.read[i].name)) :
                    /\ CallsOf(last.read[i].name)[c].cores_list =
                           [n \in 1..Cardinality(UnionOfAffinity(last.read[i])) |->
                               PyStr(SortedSeq(UnionOfAffinity(last.read[i]))[n])]
                    /\ CallsOf(last.read[i].name)[c].upd_param = "net_cpu"
        /\ Len(last.calls) <= Len(last.read)
        /\ Len(CPUS) = Len(last.before)
        /\ \A k \in 1..Len(CPUS) :
              /\ CPUS[k].attrs["net_cpu"] =
                     last.before[k].attrs["net_cpu"]
                         \o Flatten([i \in 1..Len(last.read) |->
                                        IF CPUS[k].cpu_id \in UnionOfAffinity(last.read[i])
                                        THEN <<last.read[i].name>> ELSE <<>>])
              /\ \A i \in 1..Len(last.read) :
                    Len(SelectSeq(CPUS[k].attrs["net_cpu"],
                                  LAMBDA n : n = last.read[i].name)) <= 1

\* C22 witness: net0 has the interrupts "2" and "2-3" and net1 has none;
\* CPU 2 holds net0 once and no CPU holds net1.
C22_Witness ==
    /\ Resolved
    /\ Len(last.read) = 2
    /\ Len(last.read[1].affinity) = 2
    /\ last.read[2].affinity = <<>>
    /\ \E k \in 1..Len(CPUS) :
          CPUS[k].cpu_id = 2 /\ CPUS[k].attrs["net_cpu"] = <<"net0">>
    /\ \A k \in 1..Len(CPUS) : "net1" \notin Range(CPUS[k].attrs["net_cpu"])

\* C23 (as claimed): the network affinity is resolved after the instance
\* configurations have been applied, so while get_info_about_cpus is still
\* to be called no CPU holds a net_cpu assignment.
C23_NetworkAfterInstances ==
    pc = "get_info_about_cpus" =>
        \A k \in 1..Len(CPUS) : CPUS[k].attrs["net_cpu"] = <<>>

-----------------------------------------------------------------------------
(* Claims about the role lists of the registry.                            *)

\* What one update_cpus call assigns to the CPU with an id: the instance,
\* once for every core of the call that names the CPU.
AssignedTo(call, id) ==
    [n \in 1..Len(SelectSeq(call.cores_list, LAMBDA core : PyInt(core).val = id)) |->
        call.upd_instance]

\* What the update_cpus calls of the last operation assign to the CPU with
\* an id under a role, in the order of the calls.
AssignedBy(role, id) ==
    Flatten([c \in 1..Len(last.calls) |->
                IF last.calls[c].upd_param = role
                THEN AssignedTo(last.calls[c], id) ELSE <<>>])

\* The registry a call leaves differs from the one it found in nothing but
\* the list of the role of the call.
OnlyTheRole(call) ==
    /\ Len(call.after) = Len(call.before)
    /\ \A k \in 1..Len(call.before) :
          /\ call.after[k].cpu_id = call.before[k].cpu_id
          /\ call.after[k].isolated = call.before[k].isolated
          /\ DOMAIN call.after[k].attrs = DOMAIN call.before[k].attrs
          /\ \A r \in DOMAIN call.before[k].attrs :
                call.after[k].attrs[r] =
                    call.before[k].attrs[r]
                        \o (IF r = call.upd_param
                            THEN AssignedTo(call, call.before[k].cpu_id) ELSE <<>>)

\* Every update_cpus call of the last operation returned.
AllAssigned == \A c \in 1..Len(last.calls) : last.calls[c].ok

AddressesKnownCpu(call) ==
    \E c \in 1..Len(call.cores_list) :
        PyInt(call.cores_list[c]).ok
            /\ PyInt(call.cores_list[c]).val \in IdsOf(call.before)

\* C25: the role lists of a CPU never have a key cpu_id or isolated, no
\* operation after get_all_cpus changes the id of a CPU, and an
\* update_cpus call for the role name cpu_id or isolated that names a CPU
\* of the registry is rejected with an exception and leaves the registry
\* as it found it.
C25_ReservedKeysRejected ==
    /\ \A k \in 1..Len(CPUS) : DOMAIN CPUS[k].attrs \cap ReservedAttributes = {}
    /\ last.op \notin {"none", "get_all_cpus"} =>
          /\ cpu_ids(CPUS) = cpu_ids(last.before)
          /\ \A c \in 1..Len(last.calls) :
                (/\ last.calls[c].upd_param \in ReservedAttributes
                 /\ AddressesKnownCpu(last.calls[c]))
                    => /\ ~last.calls[c].ok
                       /\ last.calls[c].after = last.calls[c].before

\* C25 witness: a CPUAlias element named cpu_id asked for CPU 1, which is
\* online; the call was rejected and CPU 1 is as it was.
C25_Witness ==
    /\ last.op = "get_info_about_cpus"
    /\ \E c \in 1..Len(last.calls) :
          /\ last.calls[c].upd_param = "cpu_id"
          /\ AddressesKnownCpu(last.calls[c])
          /\ ~last.calls[c].ok
    /\ \E k \in 1..Len(CPUS) : CPUS[k].cpu_id = 1 /\ CPUS[k] = last.before[k]

-----------------------------------------------------------------------------
(* Claims about the boot parameters.                                       *)

\* The place of the first "=" of a parameter that has one.
FirstEquals(token) ==
    CHOOSE i \in 1..Len(token) : token[i] = "=" /\ \A j \in 1..(i - 1) : token[j] # "="

\* The text of a parameter before its first "=", and all the text after it.
KeyText(token) == SubSeq(token, 1, FirstEquals(token) - 1)
ValueText(token) == SubSeq(token, FirstEquals(token) + 1, Len(token))

\* The ids a range of the boot parameter strings names, in ascending order.
RangeIds(text) == IF text = <<"2", "-", "3">> THEN <<2, 3>> ELSE <<>>

\* The key a parameter is kept under.
KeptKey(token) ==
    IF ~HasChar(token, "=") THEN token
    ELSE IF KeyText(token) = <<"cgroup_disable">>
         THEN <<"cgroup_disable_">> \o ValueText(token)
         ELSE KeyText(token)

\* The value a parameter is kept with.
KeptValue(token) ==
    IF ~HasChar(token, "=") THEN PyTrue
    ELSE IF KeyText(token) = <<"isolcpus">>
         THEN IF ValueText(token) = <<>> THEN None
              ELSE PyList(RangeIds(ValueText(token)))
         ELSE IF KeyText(token) = <<"cgroup_disable">> THEN PyTrue
              ELSE PyStrVal(ValueText(token))

\* The parameters of a boot parameter string, the empty ones left out.
BootParameters(data) == SelectSeq(PySplit(data, " "), LAMBDA token : token # <<>>)

\* refactor_parameters has returned a dict.
Parsed == last.op = "refactor_parameters" /\ last.ok

\* C26 (as claimed): the dict refactor_parameters returns has one key for
\* every parameter that is not empty, the last parameter of a key giving
\* its value: the decoded ids for isolcpus=<range>, True under
\* cgroup_disable_<name> for cgroup_disable=<name>, the whole text after
\* the first "=" for any other key=value, and True for a bare parameter.
C26_TokensMapped ==
    Parsed =>
        /\ DOMAIN last.ret.d =
               {KeptKey(BootParameters(last.read)[i]) : i \in 1..Len(BootParameters(last.read))}
        /\ \A i \in 1..Len(BootParameters(last.read)) :
              (\A j \in (i + 1)..Len(BootParameters(last.read)) :
                  KeptKey(BootParameters(last.read)[j]) # KeptKey(BootParameters(last.read)[i]))
                  => PyEq(last.ret.d[KeptKey(BootParameters(last.read)[i])],
                          KeptValue(BootParameters(last.read)[i]))

-----------------------------------------------------------------------------
(* Claims about the gate of the isolation check.                           *)

\* A Runtime.xml of the host asks for a CPU that is not online: the hosts
\* of the check have the CPUs 0-4, and their elements name 2, 3, 7, 8 and 9.
AsksUnknownCpu(facts) ==
    \E d \in 1..Len(facts.docs) : \E e \in 1..Len(facts.docs[d]) :
        Range(facts.docs[d][e].Cores) \cap {"7", "8", "9"} # {}

\* Nothing on the host gives a check that is not cut short a sentence: no
\* instance asks for an unknown CPU, the bootloader and the cmdline list
\* the kernel's isolated CPUs as the kernel does, some CPU is isolated, the
\* two CPU counts agree, SMT is off, and both boot strings write every
\* required parameter.
NothingToReport(facts) ==
    /\ ~AsksUnknownCpu(facts)
    /\ PyEq(Listed(facts.isolated), Listed(facts.grub))
    /\ PyEq(Listed(facts.isolated), Listed(facts.cmdline))
    /\ IdSet(Listed(facts.isolated)) # {}
    /\ facts.logical = facts.physical
    /\ facts.smt_active = <<"0", "\n">>
    /\ RequiredKeys(facts.primary_group) \subseteq Written(facts.cmdline)
    /\ RequiredKeys(facts.primary_group) \subseteq Written(facts.grub)

\* C27: in the zabbix mode, on a host of a test group or without a running
\* instance, the check returns "OK" and reads, compares and assigns
\* nothing, whatever the sources hold; in the other mode a check that
\* returns gives "OK" exactly if the host gives it nothing to report, and
\* exactly then its Verdict has no sentence.
C27_GateOnlyInZabbixMode ==
    last.op = "check_isolation_parameters" =>
        /\ CutShort =>
              /\ last.ok
              /\ pc = "done"
              /\ verdict = Verdict("OK", <<>>)
              /\ last.calls = <<>>
              /\ CPUS = last.before
        /\ (mode = "check" /\ last.ok) =>
              /\ (verdict.form = "OK") <=> NothingToReport(last.read)
              /\ (verdict.form = "OK") <=> (verdict.descs = <<>>)
              /\ verdict.form \in {"OK", "lines"}

\* C27 witness: a zabbix check on a host of the group workstation_dev with
\* a running instance returned "OK" although no CPU is isolated and the
\* bootloader lists 2-3.
C27_Witness ==
    /\ last.op = "check_isolation_parameters"
    /\ mode = "zabbix_check"
    /\ last.read.primary_group = "Workstation_Dev"
    /\ last.read.instances # <<>>
    /\ last.read.isolated = <<"\n">>
    /\ PyEq(Listed(last.read.grub), PyList(<<2, 3>>))
    /\ last.ok
    /\ verdict.form = "OK"
====
